---- MODULE Spec2Model ----
(***************************************************************************)
(* Vorio agent: the sync service (orchestrator), the cloud client and the  *)
(* UniFi controller adapter, modelled as state machines.                   *)
(*                                                                         *)
(* Every `await` of the TypeScript source is one step of the model: the    *)
(* step is taken when the awaited call settles, and it carries the         *)
(* synchronous code that follows the await up to the next one.  Between    *)
(* two steps of one async function any other pending callback may run      *)
(* (single-threaded cooperative scheduling).                               *)
(***************************************************************************)
EXTENDS Integers, Sequences, FiniteSets, Bags, TLC

(***************************************************************************)
(* Bounds of the model.                                                    *)
(***************************************************************************)
\* timer firings (both loops together) in one run
MaxTicks == 2
\* commands handed out by the cloud in one run (all fetches together)
MaxCommands == 2
\* vouchers in a list of the controller or an answer of the cloud
MaxVouchers == 2
\* data requests the controller answers within one adapter operation
MaxAttempts == 4
\* the largest guest limit and guest count of a raw voucher
MaxCount == 2
\* seconds the clock runs while vouchers are mapped
MaxClock == 2
\* evaluations of mapVouchers on one raw voucher
MaxMaps == 2
\* vouchers the controller holds while they are fetched page by page
MaxTotal == 4
\* records the controller puts in one page
MaxPage == 2
\* times the controller drops the adapter's session
MaxExpiries == 2
\* start() calls and stop() calls made on the service
MaxStarts == 2
MaxStops == 2

VARIABLES
    \* ---- SyncService fields
    isRunning,            \* private isRunning
    syncInterval,         \* TRUE iff the sync timer handle is set
    commandPollInterval,  \* TRUE iff the command-poll timer handle is set
    status,               \* AgentStatus
    \* ---- the start() call made by main()
    startPc, startTrace, startErr,
    \* ---- process / environment
    canListWLANs,         \* adapter.getCapabilities().canListWLANs
    exited,               \* process.exit() was called
    sigPc, sigCalls,      \* the stop() call of the running shutdown()
    ticks,                \* the timer callbacks in flight (a bag of records)
    fired,                \* timer firings so far
    fetched,              \* commands handed out so far
    syncResult,           \* the cloud's answer to the last successful upload
    \* ---- one processCommand() call on a delete_voucher command, with its data
    dvPc, dvPayload, dvVouchers, dvCalls,
    \* ---- mapVouchers() on one raw voucher
    mvPc,                 \* "idle" until the raw record is there
    mvRaw,                \* the raw record
    mvNow,                \* Date.now(), in milliseconds
    mvOut,                \* the results of the evaluations so far
    \* ---- fetchVouchersNewApi() in progress (pagination specification)
    pgPc,
    pgServer,             \* number of vouchers the controller holds
    pgOffset,             \* let offset
    pgVouchers,           \* let vouchers
    pgReqs,               \* the offsets requested so far
    pgPages,              \* the answers received so far
    pgResult,             \* "returned" or "raised"
    \* ---- two callers of the adapter (shared session specification)
    shCalls,              \* the operation of each caller
    shValid,              \* the controller accepts the session the adapter holds
    shExpiries,           \* sessions dropped so far
    shReauths,            \* login() runs begun because of the last expiry
    \* ---- start() and stop() calls on the service (lifecycle specification)
    lcStarts,             \* the start() calls
    lcStop,               \* the stop() call under way
    lcStops,              \* stop() calls so far
    lcActive,             \* timers created by setInterval and not cancelled
    \* ---- VorioClient fields
    connectionId,         \* TRUE iff connectionId is set
    \* ---- one VorioClient operation in progress (cloud client specification)
    ccOp, ccPc,
    ccSent,               \* requests the call has sent
    ccAnswers,            \* the answers to them
    ccError,              \* the error the interceptor raised for the request
    ccResult,             \* "returned" or "raised"
    ccData,               \* response.data of the last answer to connect()
    ccFields,             \* the client's connectionId and projectId fields
    \* ---- UniFiAdapter fields
    useApiKey, isLoggedIn, cookies, csrfToken,
    \* ---- one adapter operation in progress (adapter specification)
    aOp, aPc, aResps, aLogins, aReauths, aCleared, aEntryAuth, aResult,
    aReqs,                \* the requests the call has sent, in order
    aBody,                \* meta.rc and meta.msg of the last data answer
    aError,               \* the error the call raised, with its fields
    aNet,                 \* how the last connectivity probe ended
    aAuths                \* the answers to the authentication requests of the last login()

svcVars     == <<isRunning, syncInterval, commandPollInterval, status>>
startVars   == <<startPc, startTrace, startErr>>
sigVars     == <<sigPc, sigCalls>>
dvVars      == <<dvPc, dvPayload, dvVouchers, dvCalls>>
mvVars      == <<mvPc, mvRaw, mvNow, mvOut>>
ccVars      == <<ccOp, ccPc, ccSent, ccAnswers, ccError, ccResult, ccData, ccFields>>
pgVars      == <<pgPc, pgServer, pgOffset, pgVouchers, pgReqs, pgPages, pgResult>>
shVars      == <<shCalls, shValid, shExpiries, shReauths>>
lcVars      == <<lcStarts, lcStop, lcStops, lcActive>>
sideVars    == <<dvVars, mvVars, ccVars, pgVars, shVars, lcVars>>
envVars     == <<canListWLANs, syncResult, sideVars>>
sessionVars == <<cookies, csrfToken>>
opVars      == <<aOp, aPc, aResps, aLogins, aReauths, aCleared, aEntryAuth, aResult,
                 aReqs, aBody, aError, aNet, aAuths>>
vars == <<isRunning, syncInterval, commandPollInterval, status,
          startPc, startTrace, startErr,
          canListWLANs, exited, sigPc, sigCalls, ticks, fired, fetched, syncResult,
          dvPc, dvPayload, dvVouchers, dvCalls, mvPc, mvRaw, mvNow, mvOut,
          ccOp, ccPc, ccSent, ccAnswers, ccError, ccResult, ccData, ccFields,
          pgPc, pgServer, pgOffset, pgVouchers, pgReqs, pgPages, pgResult,
          shCalls, shValid, shExpiries, shReauths,
          lcStarts, lcStop, lcStops, lcActive,
          connectionId, useApiKey, isLoggedIn, cookies, csrfToken,
          aOp, aPc, aResps, aLogins, aReauths, aCleared, aEntryAuth, aResult,
          aReqs, aBody, aError, aNet, aAuths>>

(***************************************************************************)
(* Errors.  Every value thrown in the modelled code is an Error instance;  *)
(* getErrorMessage returns its message.                                    *)
(***************************************************************************)
Undefined == "undefined"
NoError == [name |-> "none", message |-> Undefined]
ConnectionError == [name |-> "ConnectionError", message |-> "Connection refused"]
AuthenticationError == [name |-> "AuthenticationError", message |-> "API key is invalid or expired"]
ControllerError == [name |-> "ControllerError", message |-> "Failed to fetch vouchers"]
VorioApiError == [name |-> "VorioApiError", message |-> "Rate limit exceeded"]

getErrorMessage(error) == error.message

LoginErrors == {ConnectionError, AuthenticationError}


(***************************************************************************)
(* The adapter as the sync service sees it (ControllerAdapter interface):  *)
(* what one awaited adapter call can have done when it settles.  The       *)
(* adapter specification below (SpecAdapter) models the same operations    *)
(* request by request.                                                     *)
(***************************************************************************)
Outcome(ok, err, loggedIn) == [ok |-> ok, err |-> err, loggedIn |-> loggedIn]

\* login(): sets the flag on success, leaves it alone on failure
LoginOutcomes(loggedIn) ==
    {Outcome(TRUE, NoError, TRUE)}
        \cup {Outcome(FALSE, e, loggedIn) : e \in LoginErrors}

\* getVouchers() / deleteVoucher(): log in first when not authenticated;
\* a failed (re-)login leaves the flag cleared
DataOutcomes(loggedIn) ==
    {Outcome(TRUE, NoError, TRUE),
     Outcome(FALSE, ControllerError, TRUE),
     Outcome(FALSE, AuthenticationError, FALSE)}

\* getAvailableWLANs(): only the login made when not authenticated can raise
WLANOutcomes(loggedIn) ==
    IF loggedIn THEN {Outcome(TRUE, NoError, TRUE)} ELSE LoginOutcomes(loggedIn)

\* a cloud request either succeeds or raises
CloudOutcomes == {NoError, VorioApiError}

\* UniFiAdapter.getCapabilities()
getCapabilities ==
    [canListWLANs |-> TRUE, canCreateVouchers |-> FALSE, canDeleteVouchers |-> TRUE]

(***************************************************************************)
(* SyncService.start(), called once by main().                             *)
(***************************************************************************)
Step(name) == startTrace' = Append(startTrace, name)

StartCatch_stillRunning(error) ==
    /\ status' = [status EXCEPT !.connected = FALSE,
                                !.lastError = getErrorMessage(error)]
    /\ startErr' = error
    /\ startPc' = "failed"
    /\ exited' = TRUE
    /\ UNCHANGED <<isRunning, syncInterval, commandPollInterval>>

\* the catch block of start(); main() then calls process.exit(1)
StartCatch(error) ==
    /\ status' = [status EXCEPT !.connected = FALSE,
                                !.lastError = getErrorMessage(error)]
    /\ isRunning' = FALSE
    /\ startErr' = error
    /\ startPc' = "failed"
    /\ exited' = TRUE
    /\ UNCHANGED <<syncInterval, commandPollInterval>>

SyncedStatus_localCount(st, vouchers, result) ==
    [st EXCEPT !.voucherCount = vouchers, !.lastSync = TRUE, !.lastError = Undefined]

\* the status update at the end of performSync(): `vouchers` were uploaded and
\* the cloud answered `result`
SyncedStatus(st, vouchers, result) ==
    [st EXCEPT !.voucherCount = result.syncedCount, !.lastSync = TRUE,
               !.lastError = Undefined]

\* what the cloud answers to an upload
SyncResults == {[syncedCount |-> k] : k \in 0..MaxVouchers}

\* A callback that reached the end of processCommand() or of its own body
\* goes on (next iteration of the for loop, settlement of its promise) in
\* the same turn of the event loop: no timer, response or signal is handled
\* before that.
MidTurn == {"processed", "skipped", "done", "caught"}

Quiet == \A r \in BagToSet(ticks) : r.pc \notin MidTurn

StartBegin ==
    /\ ~exited /\ Quiet /\ startPc = "idle"
    /\ IF isRunning
          THEN startPc' = "returned" /\ UNCHANGED isRunning
          ELSE startPc' = "login" /\ isRunning' = TRUE
    /\ UNCHANGED <<syncInterval, commandPollInterval, status, startTrace, startErr,
                   envVars, exited, sigVars, ticks, fired, fetched, connectionId,
                   useApiKey, isLoggedIn, sessionVars, opVars>>

StartLogin ==
    /\ ~exited /\ Quiet /\ startPc = "login"
    /\ \E o \in LoginOutcomes(isLoggedIn) :
          /\ isLoggedIn' = o.loggedIn
          /\ Step("login")
          /\ IF o.ok
                THEN /\ startPc' = "getControllerInfo"
                     /\ UNCHANGED <<svcVars, startErr, exited>>
                ELSE StartCatch(o.err)
    /\ UNCHANGED <<envVars, sigVars, ticks, fired, fetched, connectionId,
                   useApiKey, sessionVars, opVars>>

\* getControllerInfo() never raises; getCapabilities() is synchronous
StartControllerInfo ==
    /\ ~exited /\ Quiet /\ startPc = "getControllerInfo"
    /\ startTrace' = startTrace \o <<"getControllerInfo", "getCapabilities">>
    /\ startPc' = IF canListWLANs THEN "getAvailableWLANs" ELSE "connect"
    /\ UNCHANGED <<svcVars, startErr, envVars, exited, sigVars, ticks, fired, fetched,
                   connectionId, useApiKey, isLoggedIn, sessionVars, opVars>>

StartWLANs ==
    /\ ~exited /\ Quiet /\ startPc = "getAvailableWLANs"
    /\ \E o \in WLANOutcomes(isLoggedIn) :
          /\ isLoggedIn' = o.loggedIn
          /\ Step("getAvailableWLANs")
          /\ IF o.ok
                THEN /\ startPc' = "connect"
                     /\ UNCHANGED <<svcVars, startErr, exited>>
                ELSE StartCatch(o.err)
    /\ UNCHANGED <<envVars, sigVars, ticks, fired, fetched, connectionId,
                   useApiKey, sessionVars, opVars>>

StartConnect ==
    /\ ~exited /\ Quiet /\ startPc = "connect"
    /\ \E e \in CloudOutcomes :
          /\ Step("connect")
          /\ IF e = NoError
                THEN /\ connectionId' = TRUE
                     /\ status' = [status EXCEPT !.connected = TRUE]
                     /\ startPc' = "performSync"
                     /\ UNCHANGED <<isRunning, syncInterval, commandPollInterval,
                                    startErr, exited>>
                ELSE /\ StartCatch(e)
                     /\ UNCHANGED connectionId
    /\ UNCHANGED <<envVars, sigVars, ticks, fired, fetched,
                   useApiKey, isLoggedIn, sessionVars, opVars>>

StartGetVouchers_loopsEarly ==
    /\ ~exited /\ Quiet /\ startPc = "performSync"
    /\ \E o \in DataOutcomes(isLoggedIn) :
          /\ isLoggedIn' = o.loggedIn
          /\ IF o.ok
                THEN /\ startTrace' = startTrace \o
                           <<"getVouchers", "startCommandPollLoop", "startSyncLoop">>
                     /\ commandPollInterval' = TRUE
                     /\ syncInterval' = TRUE
                     /\ startPc' = "syncVouchers"
                     /\ UNCHANGED <<isRunning, status, startErr, exited>>
                ELSE Step("getVouchers") /\ StartCatch(o.err)
    /\ UNCHANGED <<envVars, sigVars, ticks, fired, fetched, connectionId,
                   useApiKey, sessionVars, opVars>>

\* performSync(), first await: adapter.getVouchers()
StartGetVouchers ==
    /\ ~exited /\ Quiet /\ startPc = "performSync"
    /\ \E o \in DataOutcomes(isLoggedIn) :
          /\ isLoggedIn' = o.loggedIn
          /\ Step("getVouchers")
          /\ IF o.ok
                THEN /\ startPc' = "syncVouchers"
                     /\ UNCHANGED <<svcVars, startErr, exited>>
                ELSE StartCatch(o.err)
    /\ UNCHANGED <<envVars, sigVars, ticks, fired, fetched, connectionId,
                   useApiKey, sessionVars, opVars>>

\* performSync(), second await: vorioClient.syncVouchers(); then both loops start
StartSyncVouchers ==
    /\ ~exited /\ Quiet /\ startPc = "syncVouchers"
    /\ \E e \in CloudOutcomes, vouchers \in 0..MaxVouchers, result \in SyncResults :
          IF e = NoError
             THEN /\ startTrace' = startTrace \o
                        <<"syncVouchers", "startCommandPollLoop", "startSyncLoop">>
                  /\ status' = SyncedStatus(status, vouchers, result)
                  /\ syncResult' = result
                  /\ commandPollInterval' = TRUE
                  /\ syncInterval' = TRUE
                  /\ startPc' = "done"
                  /\ UNCHANGED <<isRunning, startErr, exited>>
             ELSE /\ Step("syncVouchers")
                  /\ StartCatch(e)
                  /\ UNCHANGED syncResult
    /\ UNCHANGED <<canListWLANs, sideVars, sigVars, ticks, fired, fetched, connectionId,
                   useApiKey, isLoggedIn, sessionVars, opVars>>

(***************************************************************************)
(* SyncService.stop().  Its synchronous head runs inside the step of the   *)
(* caller; its two awaits are steps of the caller.                         *)
(***************************************************************************)
StopHead_timersKept ==
    /\ isRunning' = FALSE
    /\ UNCHANGED <<commandPollInterval, syncInterval>>

\* the head of stop() up to the first await, for a caller that found isRunning
StopHead ==
    /\ isRunning' = FALSE
    /\ commandPollInterval' = FALSE
    /\ syncInterval' = FALSE

\* adapter.logout() sends POST /api/logout only when logged in with a session;
\* otherwise it returns without waiting for anything
LogoutRequest(loggedIn) == loggedIn /\ ~useApiKey

\* adapter.logout(): the authenticated flag afterwards
LoggedOut(loggedIn) == FALSE

\* the end of stop(): logout has returned, status.connected = false
StopTail ==
    /\ isLoggedIn' = LoggedOut(isLoggedIn)
    /\ status' = [status EXCEPT !.connected = FALSE]

(***************************************************************************)
(* shutdown(signal): await syncService.stop(), then process.exit(0).        *)
(***************************************************************************)
Signal ==
    /\ ~exited /\ Quiet /\ startPc # "idle" /\ sigPc \in {"idle", "disconnect", "logout"}
    /\ IF ~isRunning
          THEN \* stop() returns at once and shutdown() exits the process
               /\ exited' = TRUE
               /\ UNCHANGED <<svcVars, sigPc, sigCalls>>
          ELSE /\ StopHead
               /\ sigPc' = "disconnect"
               /\ UNCHANGED <<status, sigCalls, exited>>
    /\ UNCHANGED <<startVars, envVars, ticks, fired, fetched, connectionId,
                   useApiKey, isLoggedIn, sessionVars, opVars>>

\* await vorioClient.disconnect(): a failure is swallowed; then adapter.logout()
SignalDisconnect ==
    /\ ~exited /\ Quiet /\ sigPc = "disconnect"
    /\ \E e \in CloudOutcomes :
          /\ connectionId' = FALSE
          /\ IF LogoutRequest(isLoggedIn)
                THEN /\ sigCalls' = Append(sigCalls, "disconnect")
                     /\ sigPc' = "logout"
                     /\ UNCHANGED <<isLoggedIn, status, exited>>
                ELSE /\ sigCalls' = sigCalls \o <<"disconnect", "logout">>
                     /\ StopTail
                     /\ sigPc' = "done"
                     /\ exited' = TRUE
    /\ UNCHANGED <<isRunning, syncInterval, commandPollInterval, startVars,
                   envVars, ticks, fired, fetched, useApiKey, sessionVars,
                   opVars>>

\* the logout request has been answered (a failure is ignored);
\* status.connected = false; shutdown() exits
SignalLogout ==
    /\ ~exited /\ Quiet /\ sigPc = "logout"
    /\ sigCalls' = Append(sigCalls, "logout")
    /\ StopTail
    /\ sigPc' = "done"
    /\ exited' = TRUE
    /\ UNCHANGED <<isRunning, syncInterval, commandPollInterval, startVars,
                   envVars, ticks, fired, fetched, connectionId,
                   useApiKey, sessionVars, opVars>>

(***************************************************************************)
(* The two setInterval callbacks.  A firing appends a callback record;     *)
(* setInterval does not wait for the promise of an earlier callback.       *)
(***************************************************************************)
CommandTypes == {"sync_now", "delete_voucher", "disconnect", "unknown"}

NewTick(loop, pc) ==
    [loop |-> loop, pc |-> pc,
     n |-> 0,          \* commands in the fetched batch
     i |-> 0,          \* index of the command being processed
     type |-> "none",  \* its type
     evs |-> <<>>,     \* what processCommand did for it, in order
     acked |-> 0,      \* commands of the batch acknowledged
     raised |-> FALSE, \* the dispatch of some command of the batch raised
     err |-> NoError,  \* the error in flight or caught by the callback
     hb |-> <<>>]      \* heartbeats sent by a sync callback

TickEntry_unguarded(running, first) == first

\* `if (!this.isRunning) return;` at the head of both callbacks
TickEntry(running, first) == IF running THEN first ELSE "skipped"

Settled(r) == r.pc \in {"skipped", "done", "caught"}

SetTick(r, new) == ticks' = (ticks (-) SetToBag({r})) (+) SetToBag({new})

CommandPollTick ==
    /\ ~exited /\ Quiet /\ commandPollInterval /\ fired < MaxTicks
    /\ fired' = fired + 1
    /\ ticks' = ticks (+) SetToBag({NewTick("cmd", TickEntry(isRunning, "getCommands"))})
    /\ UNCHANGED <<svcVars, startVars, envVars, exited, sigVars, fetched,
                   connectionId, useApiKey, isLoggedIn, sessionVars, opVars>>

SyncTick ==
    /\ ~exited /\ Quiet /\ syncInterval /\ fired < MaxTicks
    /\ fired' = fired + 1
    /\ ticks' = ticks (+) SetToBag({NewTick("sync", TickEntry(isRunning, "getVouchers"))})
    /\ UNCHANGED <<svcVars, startVars, envVars, exited, sigVars, fetched,
                   connectionId, useApiKey, isLoggedIn, sessionVars, opVars>>

At(r, loop, pc) ==
    /\ ~exited
    /\ pc \in MidTurn \/ Quiet
    /\ r \in BagToSet(ticks)
    /\ r.loop = loop
    /\ r.pc = pc

Log(r, events) == [r EXCEPT !.evs = r.evs \o events]

(***************************************************************************)
(* Command-poll callback: processCommands() / processCommand().            *)
(***************************************************************************)
NextCommand_again(r, type) ==
    IF r.i < r.n \/ r.raised
       THEN [r EXCEPT !.i = IF r.raised THEN r.i ELSE r.i + 1, !.type = type,
                      !.evs = <<>>, !.raised = FALSE, !.pc = "acknowledgeCommand"]
       ELSE [r EXCEPT !.pc = "done"]

\* payloads of a delete_voucher command; "" stands for an absent (or empty,
\* hence falsy) field
VoucherIds == {"v1", "v2"}

VoucherCodes == {"c1", "c2"}

Payloads ==
    {[voucherId |-> id, voucherCode |-> code] :
        id \in {"", "v1"}, code \in {"", "c1"}}

NoPayload == [voucherId |-> "", voucherCode |-> ""]

\* the branch handleDeleteVoucherCommand takes on a payload
DeleteBranch(payload) ==
    IF payload.voucherId # "" THEN "deleteVoucher"
    ELSE IF payload.voucherCode # "" THEN "findVoucher"
    ELSE "none"

Vouchers == {[id |-> id, code |-> code] : id \in VoucherIds, code \in VoucherCodes}

\* the lists adapter.getVouchers() can return
VoucherLists == UNION {[1..len -> Vouchers] : len \in 0..MaxVouchers}

NoVoucher == [id |-> "", code |-> ""]

find_last(vouchers, code) ==
    LET hits == {j \in 1..Len(vouchers) : vouchers[j].code = code} IN
    IF hits = {} THEN NoVoucher
    ELSE vouchers[CHOOSE j \in hits : \A k \in hits : k <= j]

\* vouchers.find((v) => v.code === payload.voucherCode)
find(vouchers, code) ==
    LET hits == {j \in 1..Len(vouchers) : vouchers[j].code = code} IN
    IF hits = {} THEN NoVoucher
    ELSE vouchers[CHOOSE j \in hits : \A k \in hits : j <= k]

\* what the lookup of a delete_voucher command can yield
Found == {find(vouchers, code) : vouchers \in VoucherLists, code \in {"c1"}}

\* the for-loop of processCommands moves on: command i+1 of the batch has
\* type `type` (the batch is an input; element i+1 is read when reached)
NextCommand(r, type) ==
    IF r.i < r.n
       THEN [r EXCEPT !.i = r.i + 1, !.type = type, !.evs = <<>>,
                      !.pc = "acknowledgeCommand"]
       ELSE [r EXCEPT !.pc = "done"]

\* processCommand(command) has returned
Returned(r) == [r EXCEPT !.pc = "processed"]

\* an error leaves processCommands and is caught by the timer callback
Caught(r, error) == [r EXCEPT !.pc = "caught", !.err = error]

\* acknowledgeCommand raised: processCommand has no handler around it
AckFailed_swallowed(r, error) ==
    [Log(r, <<"ack_failed">>) EXCEPT
        !.pc = CASE r.type = "sync_now" -> "getVouchers"
                 [] r.type = "delete_voucher" -> "deleteVoucher"
                 [] OTHER -> "completeCommand"]

AckFailed(r, error) == Caught(Log(r, <<"ack_failed">>), error)

\* the catch block of processCommand, up to its await
DispatchRaised(r, error) ==
    [r EXCEPT !.pc = "completeCommandFailed", !.err = error, !.raised = TRUE]

GetCommands(r) ==
    /\ At(r, "cmd", "getCommands")
    /\ \E e \in CloudOutcomes, n \in 0..(MaxCommands - fetched), type \in CommandTypes :
          /\ e # NoError => n = 0
          /\ fetched' = fetched + n
          /\ SetTick(r, IF e # NoError THEN Caught(r, e)
                        ELSE NextCommand([r EXCEPT !.n = n], type))
    /\ UNCHANGED <<svcVars, startVars, envVars, exited, sigVars, fired,
                   connectionId, useApiKey, isLoggedIn, sessionVars, opVars>>

\* await acknowledgeCommand(id), then the switch up to its first await
AcknowledgeCommand(r) ==
    /\ At(r, "cmd", "acknowledgeCommand")
    /\ \E e \in CloudOutcomes :
          IF e # NoError
             THEN /\ SetTick(r, AckFailed(r, e))
                  /\ UNCHANGED svcVars
             ELSE LET a == [Log(r, <<"ack_ok">>) EXCEPT !.acked = r.acked + 1] IN
                  CASE r.type = "sync_now" ->
                         /\ SetTick(r, [a EXCEPT !.pc = "getVouchers"])
                         /\ UNCHANGED svcVars
                    [] r.type = "delete_voucher" ->
                         /\ \E payload \in Payloads :
                               SetTick(r,
                                 IF DeleteBranch(payload) = "none"
                                    THEN [Log(a, <<"dispatch_ok">>)
                                             EXCEPT !.pc = "completeCommand"]
                                    ELSE [a EXCEPT !.pc = DeleteBranch(payload)])
                         /\ UNCHANGED svcVars
                    [] r.type = "disconnect" ->
                         IF ~isRunning
                            THEN \* stop() returns at once; the command is not completed
                                 /\ SetTick(r, Returned(Log(a, <<"stop">>)))
                                 /\ UNCHANGED svcVars
                            ELSE /\ StopHead
                                 /\ SetTick(r, [Log(a, <<"stop">>) EXCEPT !.pc = "disconnect"])
                                 /\ UNCHANGED status
                    [] OTHER ->
                         /\ SetTick(r, [Log(a, <<"dispatch_ok">>) EXCEPT !.pc = "completeCommand"])
                         /\ UNCHANGED svcVars
    /\ UNCHANGED <<startVars, envVars, exited, sigVars, fired, fetched,
                   connectionId, useApiKey, isLoggedIn, sessionVars, opVars>>

\* sync_now: performSync(), adapter.getVouchers()
CommandGetVouchers(r) ==
    /\ At(r, "cmd", "getVouchers")
    /\ \E o \in DataOutcomes(isLoggedIn) :
          /\ isLoggedIn' = o.loggedIn
          /\ SetTick(r, IF o.ok
                        THEN [Log(r, <<"getVouchers">>) EXCEPT !.pc = "syncVouchers"]
                        ELSE DispatchRaised(Log(r, <<"getVouchers", "dispatch_raised">>), o.err))
    /\ UNCHANGED <<svcVars, startVars, envVars, exited, sigVars, fired, fetched,
                   connectionId, useApiKey, sessionVars, opVars>>

CommandSyncVouchers_countsEarly(r) ==
    /\ At(r, "cmd", "syncVouchers")
    /\ \E e \in CloudOutcomes, vouchers \in 0..MaxVouchers, result \in SyncResults :
          IF e = NoError
             THEN /\ status' = SyncedStatus(status, vouchers, result)
                  /\ syncResult' = result
                  /\ SetTick(r, [Log(r, <<"syncVouchers", "dispatch_ok">>)
                                    EXCEPT !.pc = "completeCommand"])
             ELSE /\ status' = [status EXCEPT !.voucherCount = vouchers]
                  /\ UNCHANGED syncResult
                  /\ SetTick(r, DispatchRaised(Log(r, <<"syncVouchers", "dispatch_raised">>), e))
    /\ UNCHANGED <<isRunning, syncInterval, commandPollInterval, startVars,
                   canListWLANs, sideVars, exited, sigVars, fired, fetched,
                   connectionId, useApiKey, isLoggedIn, sessionVars, opVars>>

\* sync_now: performSync(), vorioClient.syncVouchers() and the status update
CommandSyncVouchers(r) ==
    /\ At(r, "cmd", "syncVouchers")
    /\ \E e \in CloudOutcomes, vouchers \in 0..MaxVouchers, result \in SyncResults :
          IF e = NoError
             THEN /\ status' = SyncedStatus(status, vouchers, result)
                  /\ syncResult' = result
                  /\ SetTick(r, [Log(r, <<"syncVouchers", "dispatch_ok">>)
                                    EXCEPT !.pc = "completeCommand"])
             ELSE /\ UNCHANGED <<status, syncResult>>
                  /\ SetTick(r, DispatchRaised(Log(r, <<"syncVouchers", "dispatch_raised">>), e))
    /\ UNCHANGED <<isRunning, syncInterval, commandPollInterval, startVars,
                   canListWLANs, sideVars, exited, sigVars, fired, fetched,
                   connectionId, useApiKey, isLoggedIn, sessionVars, opVars>>

\* delete_voucher by code: adapter.getVouchers(), then the search for the code
CommandFindVoucher(r) ==
    /\ At(r, "cmd", "findVoucher")
    /\ \E o \in DataOutcomes(isLoggedIn), voucher \in Found :
          /\ isLoggedIn' = o.loggedIn
          /\ SetTick(r, IF ~o.ok
                           THEN DispatchRaised(
                                   Log(r, <<"getVouchers", "dispatch_raised">>), o.err)
                        ELSE IF voucher = NoVoucher
                           THEN [Log(r, <<"getVouchers", "dispatch_ok">>)
                                    EXCEPT !.pc = "completeCommand"]
                        ELSE [Log(r, <<"getVouchers">>) EXCEPT !.pc = "deleteVoucher"])
    /\ UNCHANGED <<svcVars, startVars, envVars, exited, sigVars, fired, fetched,
                   connectionId, useApiKey, sessionVars, opVars>>

\* delete_voucher: adapter.deleteVoucher(id), the id given or found
CommandDeleteVoucher(r) ==
    /\ At(r, "cmd", "deleteVoucher")
    /\ \E o \in DataOutcomes(isLoggedIn) :
          /\ isLoggedIn' = o.loggedIn
          /\ SetTick(r, IF o.ok
                        THEN [Log(r, <<"deleteVoucher", "dispatch_ok">>)
                                 EXCEPT !.pc = "completeCommand"]
                        ELSE DispatchRaised(Log(r, <<"deleteVoucher", "dispatch_raised">>), o.err))
    /\ UNCHANGED <<svcVars, startVars, envVars, exited, sigVars, fired, fetched,
                   connectionId, useApiKey, sessionVars, opVars>>

\* disconnect: stop(), await vorioClient.disconnect() (a failure is swallowed),
\* then adapter.logout()
CommandStopDisconnect(r) ==
    /\ At(r, "cmd", "disconnect")
    /\ \E e \in CloudOutcomes :
          /\ connectionId' = FALSE
          /\ IF LogoutRequest(isLoggedIn)
                THEN /\ SetTick(r, [Log(r, <<"disconnect">>) EXCEPT !.pc = "logout"])
                     /\ UNCHANGED <<isLoggedIn, status>>
                ELSE /\ SetTick(r, Returned(Log(r, <<"disconnect", "logout", "stopped">>)))
                     /\ StopTail
    /\ UNCHANGED <<isRunning, syncInterval, commandPollInterval, startVars,
                   envVars, exited, sigVars, fired, fetched, useApiKey,
                   sessionVars, opVars>>

\* disconnect: stop(), the logout request has been answered;
\* status.connected = false; processCommand returns without completing the command
CommandStopLogout(r) ==
    /\ At(r, "cmd", "logout")
    /\ SetTick(r, Returned(Log(r, <<"logout", "stopped">>)))
    /\ StopTail
    /\ UNCHANGED <<isRunning, syncInterval, commandPollInterval, startVars,
                   envVars, exited, sigVars, fired, fetched, connectionId,
                   useApiKey, sessionVars, opVars>>

\* await completeCommand(id, true); it sits inside the try block
CompleteCommand(r) ==
    /\ At(r, "cmd", "completeCommand")
    /\ \E e \in CloudOutcomes :
          SetTick(r, IF e = NoError
                     THEN Returned(Log(r, <<"complete_true">>))
                     ELSE [Log(r, <<"complete_true">>) EXCEPT
                              !.pc = "completeCommandFailed", !.err = e])
    /\ UNCHANGED <<svcVars, startVars, envVars, exited, sigVars, fired, fetched,
                   connectionId, useApiKey, isLoggedIn, sessionVars, opVars>>

\* await completeCommand(id, false, getErrorMessage(error)), in the catch block
CompleteCommandFailed(r) ==
    /\ At(r, "cmd", "completeCommandFailed")
    /\ \E e \in CloudOutcomes :
          SetTick(r, IF e = NoError
                     THEN Returned(Log(r, <<"complete_false">>))
                     ELSE Caught(Log(r, <<"complete_false">>), e))
    /\ UNCHANGED <<svcVars, startVars, envVars, exited, sigVars, fired, fetched,
                   connectionId, useApiKey, isLoggedIn, sessionVars, opVars>>

\* processCommand returned: the for-loop of processCommands takes the next
\* command, or processCommands returns
ForNextCommand(r) ==
    /\ At(r, "cmd", "processed")
    /\ \E type \in CommandTypes :
          SetTick(r, NextCommand([r EXCEPT !.err = NoError], type))
    /\ UNCHANGED <<svcVars, startVars, envVars, exited, sigVars, fired, fetched,
                   connectionId, useApiKey, isLoggedIn, sessionVars, opVars>>

Promise_rethrown(r) == IF r.pc = "caught" THEN "rejected" ELSE "fulfilled"

\* the promise of an async timer callback: both callbacks wrap their work in
\* try/catch and their catch blocks raise nothing
Promise(r) == "fulfilled"

\* the promise of a timer callback settles; nothing of the callback remains.
\* A rejected promise would reach the unhandledRejection handler of the
\* process, which calls shutdown().
TickReturn(r) ==
    /\ ~exited
    /\ r \in BagToSet(ticks)
    /\ Settled(r)
    /\ ticks' = ticks (-) SetToBag({r})
    /\ IF Promise(r) = "rejected"
          THEN IF ~isRunning
                  THEN exited' = TRUE /\ UNCHANGED <<svcVars, sigVars>>
                  ELSE /\ StopHead
                       /\ sigPc' = "disconnect"
                       /\ UNCHANGED <<status, sigCalls, exited>>
          ELSE UNCHANGED <<svcVars, exited, sigVars>>
    /\ UNCHANGED <<startVars, envVars, fired, fetched,
                   connectionId, useApiKey, isLoggedIn, sessionVars, opVars>>

(***************************************************************************)
(* Sync callback: syncCycle() and the catch block of the callback.         *)
(***************************************************************************)
Heartbeat_withoutError(st, kind) ==
    [status |-> kind, voucherCount |-> st.voucherCount, error |-> Undefined]

\* the payload of vorioClient.heartbeat(...), built from the status when it is sent
Heartbeat(st, kind) ==
    [status |-> kind, voucherCount |-> st.voucherCount,
     error |-> IF kind = "error" THEN st.lastError ELSE Undefined]

\* catch (error): this.status.lastError = getErrorMessage(error)
CaughtStatus(st, error) == [st EXCEPT !.lastError = getErrorMessage(error)]

\* the catch block of the sync callback up to its await: the error is stored
\* and the error heartbeat is sent
SyncCaught(r, error) ==
    [r EXCEPT !.pc = "errorHeartbeat", !.err = error,
              !.hb = Append(r.hb, Heartbeat(CaughtStatus(status, error), "error"))]

\* syncCycle(), performSync(): await adapter.getVouchers()
SyncGetVouchers(r) ==
    /\ At(r, "sync", "getVouchers")
    /\ \E o \in DataOutcomes(isLoggedIn) :
          /\ isLoggedIn' = o.loggedIn
          /\ IF o.ok
                THEN /\ SetTick(r, [r EXCEPT !.pc = "syncVouchers"])
                     /\ UNCHANGED status
                ELSE /\ SetTick(r, SyncCaught(r, o.err))
                     /\ status' = CaughtStatus(status, o.err)
    /\ UNCHANGED <<isRunning, syncInterval, commandPollInterval, startVars,
                   envVars, exited, sigVars, fired, fetched, connectionId,
                   useApiKey, sessionVars, opVars>>

\* syncCycle(), performSync(): await vorioClient.syncVouchers(vouchers), the
\* status update, and the heartbeat with status 'ok' is sent
SyncSyncVouchers(r) ==
    /\ At(r, "sync", "syncVouchers")
    /\ \E e \in CloudOutcomes, vouchers \in 0..MaxVouchers, result \in SyncResults :
          IF e = NoError
             THEN /\ status' = SyncedStatus(status, vouchers, result)
                  /\ syncResult' = result
                  /\ SetTick(r, [r EXCEPT
                        !.pc = "heartbeat",
                        !.hb = Append(r.hb,
                                  Heartbeat(SyncedStatus(status, vouchers, result), "ok"))])
             ELSE /\ status' = CaughtStatus(status, e)
                  /\ UNCHANGED syncResult
                  /\ SetTick(r, SyncCaught(r, e))
    /\ UNCHANGED <<isRunning, syncInterval, commandPollInterval, startVars,
                   canListWLANs, sideVars, exited, sigVars, fired, fetched, connectionId,
                   useApiKey, isLoggedIn, sessionVars, opVars>>

\* syncCycle(): the heartbeat with status 'ok' is answered
SyncHeartbeat(r) ==
    /\ At(r, "sync", "heartbeat")
    /\ \E e \in CloudOutcomes :
          IF e = NoError
             THEN /\ SetTick(r, [r EXCEPT !.pc = "done"])
                  /\ UNCHANGED status
             ELSE /\ SetTick(r, SyncCaught(r, e))
                  /\ status' = CaughtStatus(status, e)
    /\ UNCHANGED <<isRunning, syncInterval, commandPollInterval, startVars,
                   envVars, exited, sigVars, fired, fetched, connectionId,
                   useApiKey, isLoggedIn, sessionVars, opVars>>

\* the heartbeat with status 'error' is answered; a failure is swallowed
SyncErrorHeartbeat(r) ==
    /\ At(r, "sync", "errorHeartbeat")
    /\ \E e \in CloudOutcomes :
          SetTick(r, [r EXCEPT !.pc = "caught"])
    /\ UNCHANGED <<svcVars, startVars, envVars, exited, sigVars, fired, fetched,
                   connectionId, useApiKey, isLoggedIn, sessionVars, opVars>>

(***************************************************************************)
(* The UniFi adapter, request by request.  One public method is under way  *)
(* at a time; aResps are the controller's answers to the data requests of  *)
(* the call, aLogins the login() runs of the call, aReauths those of them   *)
(* that followed an expired session.                                       *)
(***************************************************************************)
AdapterOps == {"login", "getVouchers", "deleteVoucher", "getAvailableWLANs", "logout"}

\* what a request can be answered with; 0 stands for no response at all
\* (a network-level failure)
HttpStatuses == {0, 200, 302, 401, 403, 500}

\* validateStatus of the adapter's client: with any other answer the request
\* raises an AxiosError
Accepted(code) == code # 0 /\ (code < 400 \/ code = 302)

\* error codes of a failed connection attempt; "" is an error without code
NetworkCodes == {"ECONNREFUSED", "ETIMEDOUT", ""}

\* meta.rc and meta.msg of a session-mode answer; "" is an absent msg
ReturnCodes == {"ok", "error"}

BackendMessages == {"", "api.err.NoPermission"}

NoBody == [rc |-> "", msg |-> ""]

Host == "config.unifi.host"

Port == 8443

NoDetail ==
    [name |-> "none", message |-> "", host |-> "", port |-> 0, errorCode |-> "",
     authMethod |-> "", status |-> 0]

\* getConnectionErrorMessage(errorCode)
getConnectionErrorMessage(errorCode) ==
    CASE errorCode = "ECONNREFUSED" -> "Connection refused"
      [] errorCode = "ETIMEDOUT" -> "Connection timed out"
      [] OTHER -> "Could not connect to UniFi Controller"

NewConnectionError_noCode(errorCode) ==
    [NoDetail EXCEPT !.name = "ConnectionError",
                     !.message = getConnectionErrorMessage(errorCode),
                     !.host = Host, !.port = Port]

\* new ConnectionError(message, 'unifi', host, port, errorCode)
NewConnectionError(errorCode) ==
    [NoDetail EXCEPT !.name = "ConnectionError",
                     !.message = getConnectionErrorMessage(errorCode),
                     !.host = Host, !.port = Port, !.errorCode = errorCode]

\* new AuthenticationError(message, 'unifi', authMethod)
NewAuthenticationError(message, authMethod) ==
    [NoDetail EXCEPT !.name = "AuthenticationError", !.message = message,
                     !.authMethod = authMethod]

\* new ControllerError(message, 'unifi')
NewControllerError(message) ==
    [NoDetail EXCEPT !.name = "ControllerError", !.message = message]

\* the error axios raises for an answer validateStatus refuses, or for none
AxiosError(code) ==
    [NoDetail EXCEPT !.name = "AxiosError", !.status = code,
                     !.message = IF code = 0 THEN "Network Error"
                                 ELSE "Request failed with status code"]

\* handleAuthError(error, method) on an error of the request
handleAuthError(code, method) ==
    NewAuthenticationError(
        CASE code = 401 -> IF method = "api_key" THEN "API key is invalid or expired"
                           ELSE "Username or password is incorrect"
          [] code = 403 -> IF method = "api_key"
                              THEN "API key does not have required permissions"
                              ELSE "Account does not have required permissions"
          [] OTHER -> "Authentication failed",
        method)

isSessionExpired_forbidden(code) == code = 403

\* isSessionExpired(error): the response of the failed request has status 401
isSessionExpired(code) == code = 401

\* the response interceptor, installed for session authentication only,
\* keeps the cookies and the CSRF token of a response that carries them
Intercept ==
    IF useApiKey
       THEN UNCHANGED sessionVars
       ELSE /\ cookies' \in {cookies, TRUE}
            /\ csrfToken' \in {csrfToken, TRUE}

\* the interceptor sees the answers the client accepts
InterceptIf(accepted) == IF accepted THEN Intercept ELSE UNCHANGED sessionVars

ServiceUnchanged ==
    UNCHANGED <<svcVars, startVars, envVars, exited, sigVars, ticks, fired,
                fetched, connectionId, useApiKey>>

Finish(result) == aPc' = "done" /\ aResult' = result

\* the method returns
Return(result) == Finish(result) /\ aError' = NoDetail

\* the method raises `error`
Raise(error) == Finish(error.name) /\ aError' = error

\* a request is sent and awaited at `pc`
Send(request, pc) ==
    /\ aReqs' = Append(aReqs, request)
    /\ aPc' = pc
    /\ UNCHANGED <<aResult, aError>>

\* the first request of a method once the adapter is authenticated
FirstRequest(op) == IF op = "getAvailableWLANs" THEN "wlanProxy" ELSE "request"

\* login(), getVouchers(), deleteVoucher(id), getAvailableWLANs() or logout()
\* is called, up to its first await
AdapterCall ==
    /\ aPc \in {"idle", "done"}
    /\ \E op \in AdapterOps :
          /\ aOp' = op
          /\ aResps' = <<>> /\ aReauths' = 0 /\ aCleared' = FALSE
          /\ aBody' = NoBody /\ aNet' = "none" /\ aAuths' = <<>>
          /\ aEntryAuth' = isLoggedIn
          /\ CASE op = "login" ->
                    /\ aPc' = "probe" /\ aLogins' = 1 /\ aResult' = "none"
                    /\ aReqs' = <<"probe">> /\ aError' = NoDetail
                    /\ UNCHANGED <<isLoggedIn, sessionVars>>
               [] op = "logout" ->
                    /\ aLogins' = 0 /\ aError' = NoDetail
                    /\ IF ~isLoggedIn
                          THEN /\ Finish("ok") /\ aReqs' = <<>>
                               /\ UNCHANGED <<isLoggedIn, sessionVars>>
                          ELSE IF LogoutRequest(isLoggedIn)
                                  THEN /\ aPc' = "logoutRequest" /\ aResult' = "none"
                                       /\ aReqs' = <<"logout">>
                                       /\ UNCHANGED <<isLoggedIn, sessionVars>>
                                  ELSE /\ Finish("ok") /\ aReqs' = <<>>
                                       /\ isLoggedIn' = LoggedOut(isLoggedIn)
                                       /\ cookies' = FALSE /\ csrfToken' = FALSE
               [] OTHER ->
                    /\ aResult' = "none" /\ aError' = NoDetail
                    /\ IF isLoggedIn
                          THEN /\ aPc' = FirstRequest(op) /\ aLogins' = 0
                               /\ aReqs' = <<FirstRequest(op)>>
                          ELSE /\ aPc' = "probe" /\ aLogins' = 1
                               /\ aReqs' = <<"probe">>
                    /\ UNCHANGED <<isLoggedIn, sessionVars>>
    /\ ServiceUnchanged

\* login(): await testConnectivity(); the authentication request follows
AdapterProbe ==
    /\ aPc = "probe"
    /\ \E responds \in BOOLEAN, code \in NetworkCodes :
          IF responds
             THEN /\ Send(IF useApiKey THEN "sites" ELSE "auth/login", "auth")
                  /\ aNet' = "responds"
             ELSE /\ Raise(NewConnectionError(IF code = "" THEN "UNKNOWN" ELSE code))
                  /\ aNet' = code
                  /\ UNCHANGED aReqs
    /\ UNCHANGED <<aOp, aResps, aBody, aLogins, aReauths, aCleared, aEntryAuth,
                   aAuths, isLoggedIn, sessionVars>>
    /\ ServiceUnchanged

\* login() succeeded: it returns, or the method that called it goes on
LoggedIn ==
    /\ isLoggedIn' = TRUE
    /\ IF aOp = "login"
          THEN Return("ok") /\ UNCHANGED aReqs
          ELSE Send(FirstRequest(aOp), FirstRequest(aOp))

\* login(): loginWithApiKey() (GET sites) or the first request of
\* loginWithCredentials() (POST /api/auth/login) is answered
AdapterAuth ==
    /\ aPc = "auth"
    /\ \E s \in HttpStatuses, sites \in BOOLEAN :
          /\ aAuths' = Append(aAuths, s)
          /\ InterceptIf(Accepted(s))
          /\ IF useApiKey
                THEN IF s = 200 /\ sites
                        THEN LoggedIn
                        ELSE /\ Raise(IF ~Accepted(s)
                                         THEN handleAuthError(s, "api_key")
                                      ELSE IF s # 200
                                         THEN NewAuthenticationError(
                                                "Failed to fetch sites", "api_key")
                                      ELSE NewAuthenticationError(
                                                "No sites found", "api_key"))
                             /\ UNCHANGED <<isLoggedIn, aReqs>>
                ELSE IF s = 200
                        THEN LoggedIn
                        ELSE /\ Send("login", "authLegacy")
                             /\ UNCHANGED isLoggedIn
    /\ UNCHANGED <<aOp, aResps, aBody, aLogins, aReauths, aCleared, aEntryAuth, aNet>>
    /\ ServiceUnchanged

\* loginWithCredentials(): POST /api/login of the legacy controllers is answered
AdapterAuthLegacy ==
    /\ aPc = "authLegacy"
    /\ \E s \in HttpStatuses, rc \in ReturnCodes, msg \in BackendMessages :
          /\ aAuths' = Append(aAuths, s)
          /\ InterceptIf(Accepted(s))
          /\ IF Accepted(s) /\ (rc = "ok" \/ s = 200)
                THEN LoggedIn
                ELSE /\ Raise(IF ~Accepted(s)
                                 THEN handleAuthError(s, "credentials")
                                 ELSE NewAuthenticationError(
                                        IF msg # "" THEN msg ELSE "Login rejected",
                                        "credentials"))
                     /\ UNCHANGED <<isLoggedIn, aReqs>>
    /\ UNCHANGED <<aOp, aResps, aBody, aLogins, aReauths, aCleared, aEntryAuth, aNet>>
    /\ ServiceUnchanged

\* what fetchVouchers*Api() / deleteVoucher*Api() make of an answer the client
\* accepted: NoDetail when they return, else the error they raise
Reply(op, s, rc, msg) ==
    IF useApiKey
       THEN IF op = "deleteVoucher" /\ s # 200
               THEN NewControllerError("Failed to delete voucher: HTTP")
               ELSE NoDetail
       ELSE IF rc # "ok"
               THEN NewControllerError(
                      IF msg # "" THEN msg
                      ELSE IF op = "deleteVoucher" THEN "Failed to delete voucher"
                      ELSE "Failed to fetch vouchers")
               ELSE NoDetail

\* fetchRawVouchers() / deleteVoucher(id): the data request is answered
AdapterRequest ==
    /\ aPc = "request"
    /\ Len(aResps) < MaxAttempts
    /\ \E s \in HttpStatuses, rc \in ReturnCodes, msg \in BackendMessages :
          /\ aResps' = Append(aResps, s)
          /\ aBody' = [rc |-> rc, msg |-> msg]
          /\ IF Accepted(s)
                THEN /\ IF Reply(aOp, s, rc, msg) = NoDetail
                           THEN Return("ok")
                           ELSE Raise(Reply(aOp, s, rc, msg))
                     /\ Intercept
                     /\ UNCHANGED <<isLoggedIn, aLogins, aReauths, aCleared, aReqs,
                                    aAuths>>
                ELSE IF isSessionExpired(s)
                        THEN /\ isLoggedIn' = FALSE
                             /\ aCleared' = TRUE
                             /\ aReauths' = aReauths + 1
                             /\ aLogins' = aLogins + 1
                             /\ Send("probe", "probe")
                             /\ aAuths' = <<>>
                             /\ UNCHANGED sessionVars
                        ELSE /\ Raise(AxiosError(s))
                             /\ UNCHANGED <<isLoggedIn, sessionVars, aLogins,
                                            aReauths, aCleared, aReqs, aAuths>>
    /\ UNCHANGED <<aOp, aEntryAuth, aNet>>
    /\ ServiceUnchanged

\* fetchWLANs(): the request on the proxy path is answered; without a list in
\* the answer, or on an error, the direct path is tried
AdapterWLANProxy ==
    /\ aPc = "wlanProxy"
    /\ \E s \in HttpStatuses, list \in BOOLEAN :
          /\ aResps' = Append(aResps, s)
          /\ InterceptIf(Accepted(s))
          /\ IF Accepted(s) /\ list
                THEN Return("ok") /\ UNCHANGED aReqs
                ELSE Send("wlanDirect", "wlanDirect")
    /\ UNCHANGED <<aOp, aBody, aLogins, aReauths, aCleared, aEntryAuth, aNet,
                   aAuths, isLoggedIn>>
    /\ ServiceUnchanged

\* fetchWLANs(): the request on the direct path is answered; its error is
\* caught by getAvailableWLANs(), which returns []
AdapterWLANDirect ==
    /\ aPc = "wlanDirect"
    /\ \E s \in HttpStatuses :
          /\ aResps' = Append(aResps, s)
          /\ InterceptIf(Accepted(s))
          /\ Return(IF Accepted(s) THEN "ok" ELSE "empty")
    /\ UNCHANGED <<aOp, aBody, aReqs, aLogins, aReauths, aCleared, aEntryAuth,
                   aNet, aAuths, isLoggedIn>>
    /\ ServiceUnchanged

\* logout(): POST /api/logout is answered; a failure is ignored
AdapterLogoutRequest ==
    /\ aPc = "logoutRequest"
    /\ isLoggedIn' = LoggedOut(isLoggedIn)
    /\ cookies' = FALSE /\ csrfToken' = FALSE
    /\ Return("ok")
    /\ UNCHANGED <<aOp, aResps, aBody, aReqs, aLogins, aReauths, aCleared,
                   aEntryAuth, aNet, aAuths>>
    /\ ServiceUnchanged

(***************************************************************************)
(* The agent process after construction: main() builds the singletons and  *)
(* calls start().  The adapter is configured for an API key or for         *)
(* credentials; cookies and CSRF token are those of the request layer and  *)
(* are followed by the adapter's request-level actions only.               *)
(***************************************************************************)
IdleOp ==
    /\ aOp = "none" /\ aPc = "idle" /\ aResps = <<>> /\ aLogins = 0 /\ aReauths = 0
    /\ aCleared = FALSE /\ aEntryAuth = FALSE /\ aResult = "none"
    /\ aReqs = <<>> /\ aBody = NoBody /\ aError = NoDetail /\ aNet = "none"
    /\ aAuths = <<>>

(***************************************************************************)
(* UniFiAdapter.mapVouchers(): raw voucher records of the controller, in   *)
(* the field naming of the Integration API ("modern") or of the legacy     *)
(* API, are mapped to the canonical form.  An absent numeric field is      *)
(* Absent, an absent string field is Undefined; a timestamp in ISO form    *)
(* (createdAt, activatedAt) is given by the epoch milliseconds it denotes. *)
(***************************************************************************)
Absent == -1

\* JavaScript truthiness of a number, of a string and of an ISO timestamp
\* (a non-empty string, whatever instant it denotes)
TruthyNumber(x) == x # Absent /\ x # 0

TruthyString(x) == x # Undefined /\ x # ""

TruthyDate(x) == x # Absent

\* a || b on numbers and on strings
OrNumber(a, b) == IF TruthyNumber(a) THEN a ELSE b

OrString(a, b) == IF TruthyString(a) THEN a ELSE b

\* Math.floor(ms / 1000)
Seconds(ms) == ms \div 1000

Status_derivedFirst(v, quota, used) ==
    IF TruthyString(v.status) THEN v.status
    ELSE IF used > 0 /\ quota = 1 THEN "USED"
    ELSE IF quota = 1 THEN "VALID_ONE"
    ELSE IF v.expired = "true" THEN "EXPIRED"
    ELSE "VALID_MULTI"

\* the status of a mapped voucher
Status(v, quota, used) ==
    IF v.expired = "true" THEN "EXPIRED"
    ELSE IF TruthyString(v.status) THEN v.status
    ELSE IF used > 0 /\ quota = 1 THEN "USED"
    ELSE IF quota = 1 THEN "VALID_ONE"
    ELSE "VALID_MULTI"

\* the body of the map callback on raw voucher v, Date.now() being `now`
mapVoucher(v, now) ==
    LET createTime == IF TruthyDate(v.createdAt) THEN Seconds(v.createdAt)
                      ELSE IF TruthyNumber(v.create_time) THEN v.create_time
                      ELSE Seconds(now)
        startTime == IF TruthyDate(v.activatedAt) THEN Seconds(v.activatedAt)
                     ELSE IF TruthyNumber(v.start_time) THEN v.start_time
                     ELSE Absent
        duration == OrNumber(OrNumber(v.timeLimitMinutes, v.duration), 0)
        quota == OrNumber(OrNumber(v.authorizedGuestLimit, v.quota), 1)
        used == OrNumber(OrNumber(v.authorizedGuestCount, v.used), 0)
    IN  [id |-> OrString(OrString(v.id, v._id), v.code),
         code |-> v.code,
         duration |-> duration,
         quota |-> quota,
         createTime |-> createTime,
         startTime |-> startTime,
         used |-> used,
         status |-> Status(v, quota, used),
         qosRateMaxUp |-> OrNumber(v.txRateLimitKbps, v.qos_rate_max_up),
         qosRateMaxDown |-> OrNumber(v.rxRateLimitKbps, v.qos_rate_max_down),
         note |-> OrString(v.name, v.note)]

\* vouchers.map(...)
mapVouchers(vouchers, now) == [j \in 1..Len(vouchers) |-> mapVoucher(vouchers[j], now)]

\* a raw record with a code and no other field
BareVoucher ==
    [id |-> Undefined, _id |-> Undefined, code |-> "c1",
     createdAt |-> Absent, create_time |-> Absent,
     activatedAt |-> Absent, start_time |-> Absent,
     timeLimitMinutes |-> Absent, duration |-> Absent,
     authorizedGuestLimit |-> Absent, quota |-> Absent,
     authorizedGuestCount |-> Absent, used |-> Absent,
     expired |-> "undefined", status |-> Undefined,
     txRateLimitKbps |-> Absent, qos_rate_max_up |-> Absent,
     rxRateLimitKbps |-> Absent, qos_rate_max_down |-> Absent,
     name |-> Undefined, note |-> Undefined]

Counts == {Absent} \cup 0..MaxCount

\* raw records that differ in the fields of quota, use and status
CountedVouchers ==
    {[BareVoucher EXCEPT !.authorizedGuestLimit = ql, !.quota = q,
                         !.authorizedGuestCount = uc, !.used = u,
                         !.expired = e, !.status = st] :
        ql \in Counts, q \in Counts, uc \in Counts, u \in Counts,
        e \in {"undefined", "true", "false"}, st \in {Undefined, "VALID_MULTI"}}

\* raw records that differ in their timestamps
DatedVouchers ==
    {[BareVoucher EXCEPT !.createdAt = ca, !.create_time = ct,
                         !.activatedAt = aa, !.start_time = st] :
        ca \in {Absent, 0, 2500}, ct \in {Absent, 0, 7},
        aa \in {Absent, 0, 2500}, st \in {Absent, 0, 7}}

\* raw records that differ in duration and rate limits
LimitedVouchers ==
    {[BareVoucher EXCEPT !.timeLimitMinutes = tl, !.duration = d,
                         !.txRateLimitKbps = tx, !.qos_rate_max_up = up,
                         !.rxRateLimitKbps = rx, !.qos_rate_max_down = down] :
        tl \in {Absent, 0, 60}, d \in {Absent, 30},
        tx \in {Absent, 0, 512}, up \in {Absent, 256},
        rx \in {Absent, 0, 512}, down \in {Absent, 256}}

\* raw records that differ in identifiers and names
NamedVouchers ==
    {[BareVoucher EXCEPT !.id = id, !._id = lid, !.name = n, !.note = nt] :
        id \in {Undefined, "", "v1"}, lid \in {Undefined, "v2"},
        n \in {Undefined, "", "n1"}, nt \in {Undefined, "n2"}}

RawVouchers == CountedVouchers \cup DatedVouchers \cup LimitedVouchers \cup NamedVouchers

\* the instants of the clock, in milliseconds
Instants == {500 * k : k \in 0..(2 * MaxClock)}

MvUnchanged ==
    UNCHANGED <<svcVars, startVars, canListWLANs, syncResult, dvVars, ccVars,
                pgVars, shVars, lcVars, exited, sigVars, ticks, fired, fetched, connectionId, useApiKey,
                isLoggedIn, sessionVars, opVars>>

\* the controller's answer holds the raw record v
MvFetched ==
    /\ mvPc = "idle"
    /\ mvPc' = "fetched"
    /\ \E v \in RawVouchers : mvRaw' = v
    /\ UNCHANGED <<mvNow, mvOut>>
    /\ MvUnchanged

\* time passes
MvClock ==
    /\ mvNow + 500 \in Instants
    /\ mvNow' = mvNow + 500
    /\ UNCHANGED <<mvPc, mvRaw, mvOut>>
    /\ MvUnchanged

\* mapVouchers([v]) is evaluated
MvMap ==
    /\ mvPc = "fetched"
    /\ Len(mvOut) < MaxMaps
    /\ mvOut' = mvOut \o mapVouchers(<<mvRaw>>, mvNow)
    /\ UNCHANGED <<mvPc, mvRaw, mvNow>>
    /\ MvUnchanged

(***************************************************************************)
(* The cloud client (VorioClient), request by request: one of its          *)
(* operations is under way at a time.                                      *)
(***************************************************************************)
CloudOps ==
    {"connect", "disconnect", "heartbeat", "syncVouchers", "getCommands",
     "acknowledgeCommand", "completeCommand"}

\* the path an operation sends its request to
Endpoint(op) ==
    CASE op = "connect" -> "/api/agent/connect"
      [] op = "disconnect" -> "/api/agent/disconnect"
      [] op = "heartbeat" -> "/api/agent/heartbeat"
      [] op = "syncVouchers" -> "/api/agent/sync"
      [] op = "getCommands" -> "/api/agent/commands"
      [] op = "acknowledgeCommand" -> "/api/agent/commands/id/ack"
      [] OTHER -> "/api/agent/commands/id/complete"

\* what the cloud answers; 0 stands for no response received
CloudStatuses == {0, 200, 401, 403, 404, 429, 500}

NoCloudError == [name |-> "none", statusCode |-> 0, endpoint |-> "", message |-> ""]

handleError_noEndpoint(code, url) ==
    IF code = 0
       THEN [name |-> "ConnectionError", statusCode |-> 0, endpoint |-> "",
             message |-> "Could not connect to Vorio Cloud"]
       ELSE [name |-> "VorioApiError", statusCode |-> code, endpoint |-> "",
             message |-> "errorMessage"]

\* handleError(error), the response interceptor's error handler, on an error
\* whose response has status `code` (0: no response) for a request to `url`
handleError(code, url) ==
    IF code = 0
       THEN [name |-> "ConnectionError", statusCode |-> 0, endpoint |-> "",
             message |-> "Could not connect to Vorio Cloud"]
       ELSE [name |-> "VorioApiError", statusCode |-> code, endpoint |-> url,
             message |-> CASE code = 401 -> "Authentication failed"
                           [] code = 403 -> "Access denied"
                           [] code = 404 -> "API endpoint not found"
                           [] code = 429 -> "Rate limit exceeded"
                           [] OTHER -> "errorMessage"]

\* the fields before connect() and after disconnect()
NoIds == [connectionId |-> Undefined, projectId |-> Undefined]

\* what the cloud returns to a successful connect()
ConnectResponses ==
    {[connectionId |-> c, projectId |-> p] : c \in {"conn1", "conn2"}, p \in {"proj1", "proj2"}}

Fields_clearedOnFailure(op, code, data, fields) ==
    CASE op = "disconnect" -> NoIds
      [] op = "connect" -> IF code = 200 THEN data ELSE NoIds
      [] OTHER -> fields

\* the connectionId and projectId fields after operation `op` was answered
\* with `code` (and, for connect(), with `data`)
Fields(op, code, data, fields) ==
    CASE op = "disconnect" -> NoIds
      [] op = "connect" /\ code = 200 -> data
      [] OTHER -> fields

\* isConnected(), on the fields
isConnected(fields) == fields.connectionId # Undefined

CcUnchanged ==
    UNCHANGED <<svcVars, startVars, canListWLANs, syncResult, dvVars, mvVars, pgVars, shVars,
                lcVars, exited, sigVars, ticks, fired, fetched, useApiKey, isLoggedIn,
                sessionVars, opVars>>

\* an operation of the client is called: it sends its request
CloudCall ==
    /\ ccPc \in {"idle", "done"}
    /\ \E op \in CloudOps : ccOp' = op
    /\ ccPc' = "request"
    /\ ccSent' = 1
    /\ ccAnswers' = <<>>
    /\ ccError' = NoCloudError /\ ccResult' = "none"
    /\ ccData' = NoIds
    /\ UNCHANGED <<connectionId, ccFields>>
    /\ CcUnchanged

\* the request is answered, or fails without an answer; disconnect() catches
\* the error its request raised, logs it and returns
CloudAnswer ==
    /\ ccPc = "request"
    /\ \E code \in CloudStatuses, data \in ConnectResponses :
          /\ ccAnswers' = Append(ccAnswers, code)
          /\ ccData' = IF ccOp = "connect" /\ code = 200 THEN data ELSE NoIds
          /\ ccFields' = Fields(ccOp, code, data, ccFields)
          /\ ccError' = IF code = 200 THEN NoCloudError
                        ELSE handleError(code, Endpoint(ccOp))
          /\ ccResult' = IF code = 200 \/ ccOp = "disconnect" THEN "returned"
                         ELSE "raised"
          /\ connectionId' = isConnected(Fields(ccOp, code, data, ccFields))
    /\ ccPc' = "done"
    /\ UNCHANGED <<ccOp, ccSent>>
    /\ CcUnchanged

(***************************************************************************)
(* fetchVouchersNewApi(): the pages of the Integration API.  The           *)
(* controller holds the vouchers 1..pgServer and answers a request for     *)
(* `offset` with the records that follow it.                               *)
(***************************************************************************)
VOUCHER_PAGE_SIZE == 1000

Min(a, b) == IF a < b THEN a ELSE b

\* the vouchers of the controller from position `from` to position `to`
Records(from, to) == [j \in 1..(to - from + 1) |-> from + j - 1]

\* a response: `present` is false when response.data is missing;
\* totalCount 0 stands for an absent (or zero, hence falsy) field
Page(present, len, totalCount) ==
    [present |-> present, len |-> len, totalCount |-> totalCount]

NextOffset_byLimit(offset, len) == offset + VOUCHER_PAGE_SIZE

\* offset += data.length
NextOffset(offset, len) == offset + len

\* hasMore = offset < totalCount && data.length > 0
hasMore(offset, totalCount, len) == offset < totalCount /\ len > 0

PgUnchanged ==
    UNCHANGED <<svcVars, startVars, canListWLANs, syncResult, dvVars, mvVars, ccVars,
                shVars, lcVars, exited, sigVars, ticks, fired, fetched, connectionId, useApiKey,
                isLoggedIn, sessionVars, opVars>>

\* fetchVouchersNewApi() is called: offset = 0 and the first page is requested
PgCall ==
    /\ pgPc \in {"idle", "done"}
    /\ \E total \in 0..MaxTotal : pgServer' = total
    /\ pgPc' = "request"
    /\ pgOffset' = 0
    /\ pgVouchers' = <<>>
    /\ pgReqs' = <<0>>
    /\ pgPages' = <<>>
    /\ pgResult' = "none"
    /\ PgUnchanged

\* a page request is answered; the body of the while loop up to the next await
PgPage ==
    /\ pgPc = "request"
    /\ \E code \in {200, 500},
          present \in BOOLEAN,
          len \in 0..Min(Min(VOUCHER_PAGE_SIZE, MaxPage), pgServer - pgOffset),
          totalCount \in {0, pgServer} :
          IF code # 200
             THEN \* the request raised: the error leaves the loop
                  /\ pgPc' = "done" /\ pgResult' = "raised"
                  /\ UNCHANGED <<pgOffset, pgVouchers, pgReqs, pgPages>>
          ELSE IF ~present
             THEN /\ pgPages' = Append(pgPages, Page(FALSE, 0, 0))
                  /\ pgPc' = "done" /\ pgResult' = "returned"
                  /\ UNCHANGED <<pgOffset, pgVouchers, pgReqs>>
          ELSE LET offset == NextOffset(pgOffset, len) IN
               /\ pgPages' = Append(pgPages, Page(TRUE, len, totalCount))
               /\ pgVouchers' = pgVouchers \o Records(pgOffset + 1, pgOffset + len)
               /\ pgOffset' = offset
               /\ IF hasMore(offset, totalCount, len)
                     THEN /\ pgReqs' = Append(pgReqs, offset)
                          /\ UNCHANGED <<pgPc, pgResult>>
                     ELSE /\ pgPc' = "done" /\ pgResult' = "returned"
                          /\ UNCHANGED pgReqs
    /\ UNCHANGED pgServer
    /\ PgUnchanged

(***************************************************************************)
(* Two callers of the adapter at once: the sync callback (getVouchers) and *)
(* the command-poll callback (deleteVoucher) share the adapter's session.  *)
(* login() is one step here, taken when its last request is answered.      *)
(***************************************************************************)
Callers == {"sync", "cmd"}

\* a caller's operation: where it is, the 401 answers it got and how it ended
IdleCall == [pc |-> "idle", expired |-> 0, result |-> "none"]

ShUnchanged ==
    UNCHANGED <<svcVars, startVars, canListWLANs, syncResult, dvVars, mvVars, ccVars,
                pgVars, lcVars, exited, sigVars, ticks, fired, fetched, connectionId,
                useApiKey, csrfToken, opVars>>

\* the head of fetchRawVouchers() / deleteVoucher(): log in first unless
\* authenticated, then send the request
AfterEntry(loggedIn) == IF loggedIn THEN "request" ELSE "login"

\* a session has been set up: the login() of start() succeeded, and the
\* timers exist only after that
SessionSetUp == shValid \/ shExpiries > 0

\* the login() of start() succeeds
ShStart ==
    /\ ~SessionSetUp /\ ~isLoggedIn
    /\ isLoggedIn' = TRUE
    /\ cookies' = ~useApiKey
    /\ shValid' = TRUE
    /\ UNCHANGED <<shCalls, shExpiries, shReauths>>
    /\ ShUnchanged

\* a callback calls its adapter operation
ShCall(c) ==
    /\ SessionSetUp
    /\ shCalls[c].pc \in {"idle", "done"}
    /\ shCalls' = [shCalls EXCEPT ![c] = [IdleCall EXCEPT !.pc = AfterEntry(isLoggedIn)]]
    /\ UNCHANGED <<isLoggedIn, cookies, shValid, shExpiries, shReauths>>
    /\ ShUnchanged

\* the controller drops the session the adapter holds
ShExpire ==
    /\ shValid /\ shExpiries < MaxExpiries
    /\ shValid' = FALSE
    /\ shExpiries' = shExpiries + 1
    /\ shReauths' = 0
    /\ UNCHANGED <<isLoggedIn, cookies, shCalls>>
    /\ ShUnchanged

\* the data request of a caller is answered: 401 when the session is gone,
\* and then the catch block clears the flag and calls login()
ShAnswer(c) ==
    /\ shCalls[c].pc = "request"
    /\ IF shValid
          THEN /\ \E result \in {"ok", ControllerError.name} :
                     shCalls' = [shCalls EXCEPT ![c].pc = "done", ![c].result = result]
               /\ UNCHANGED <<isLoggedIn, shReauths>>
          ELSE /\ isSessionExpired(401)
               /\ isLoggedIn' = FALSE
               /\ shCalls' = [shCalls EXCEPT ![c].pc = "login",
                                             ![c].expired = shCalls[c].expired + 1]
               /\ shReauths' = shReauths + 1
    /\ UNCHANGED <<cookies, shValid, shExpiries>>
    /\ ShUnchanged

\* the login() a caller awaits ends; after a successful one the operation is
\* entered again and sends its request
ShLogin(c) ==
    /\ shCalls[c].pc = "login"
    /\ \E o \in LoginOutcomes(isLoggedIn) :
          /\ isLoggedIn' = o.loggedIn
          /\ IF o.ok
                THEN /\ shCalls' = [shCalls EXCEPT ![c].pc = AfterEntry(TRUE)]
                     /\ cookies' = ~useApiKey
                     /\ shValid' = TRUE
                ELSE /\ shCalls' = [shCalls EXCEPT ![c].pc = "done",
                                                   ![c].result = o.err.name]
                     /\ UNCHANGED <<cookies, shValid>>
    /\ UNCHANGED <<shExpiries, shReauths>>
    /\ ShUnchanged

(***************************************************************************)
(* SyncService as a component: start() and stop() called in any order.     *)
(* Each start() call has its own position; the timers created by           *)
(* setInterval are counted apart from the handles the service stores.      *)
(***************************************************************************)
StartCalls == 1..MaxStarts

\* the awaits of start(), in order
StartAwaits ==
    {"login", "getControllerInfo", "getAvailableWLANs", "connect", "getVouchers",
     "syncVouchers"}

\* a start() call: where it is, and whether a stop() has run to completion
\* while it was suspended
IdleStart == [pc |-> "idle", stopped |-> FALSE]

\* what the call awaited at `pc` can have done when it settles
AwaitOutcomes(pc, loggedIn) ==
    CASE pc = "login" -> LoginOutcomes(loggedIn)
      [] pc = "getControllerInfo" -> {Outcome(TRUE, NoError, loggedIn)}
      [] pc = "getAvailableWLANs" -> WLANOutcomes(loggedIn)
      [] pc = "getVouchers" -> DataOutcomes(loggedIn)
      [] OTHER -> {Outcome(e = NoError, e, loggedIn) : e \in CloudOutcomes}

\* the await that follows the one at `pc`
NextAwait(pc) ==
    CASE pc = "login" -> "getControllerInfo"
      [] pc = "getControllerInfo" ->
            IF canListWLANs THEN "getAvailableWLANs" ELSE "connect"
      [] pc = "getAvailableWLANs" -> "connect"
      [] pc = "connect" -> "getVouchers"
      [] pc = "getVouchers" -> "syncVouchers"
      [] OTHER -> "done"

\* clearInterval(handle): the timer the handle refers to is cancelled
Cleared(active, handle) == IF handle THEN active - 1 ELSE active

LcUnchanged ==
    UNCHANGED <<startVars, canListWLANs, dvVars, mvVars, ccVars, pgVars, shVars,
                exited, sigVars, ticks, fired, fetched, useApiKey, sessionVars,
                opVars>>

\* start() is called
LcStart(k) ==
    /\ lcStarts[k].pc = "idle"
    /\ \A j \in StartCalls : j < k => lcStarts[j].pc # "idle"
    /\ IF isRunning
          THEN /\ lcStarts' = [lcStarts EXCEPT ![k].pc = "returned"]
               /\ UNCHANGED isRunning
          ELSE /\ lcStarts' = [lcStarts EXCEPT ![k].pc = "login"]
               /\ isRunning' = TRUE
    /\ UNCHANGED <<syncInterval, commandPollInterval, status, syncResult, lcStop,
                   lcStops, lcActive, connectionId, isLoggedIn>>
    /\ LcUnchanged

\* a start() call resumes: the call it awaited has settled
LcResume(k) ==
    /\ lcStarts[k].pc \in StartAwaits
    /\ \E o \in AwaitOutcomes(lcStarts[k].pc, isLoggedIn), result \in SyncResults :
          LET pc == lcStarts[k].pc IN
          /\ isLoggedIn' = o.loggedIn
          /\ IF ~o.ok
                THEN \* the catch block of start()
                     /\ status' = [status EXCEPT !.connected = FALSE,
                                                 !.lastError = getErrorMessage(o.err)]
                     /\ isRunning' = FALSE
                     /\ lcStarts' = [lcStarts EXCEPT ![k].pc = "failed"]
                     /\ UNCHANGED <<syncInterval, commandPollInterval, lcActive,
                                    connectionId, syncResult>>
                ELSE /\ lcStarts' = [lcStarts EXCEPT ![k].pc = NextAwait(pc)]
                     /\ connectionId' = (pc = "connect" \/ connectionId)
                     /\ status' = CASE pc = "connect" -> [status EXCEPT !.connected = TRUE]
                                    [] pc = "syncVouchers" -> SyncedStatus(status, 0, result)
                                    [] OTHER -> status
                     /\ syncResult' = IF pc = "syncVouchers" THEN result ELSE syncResult
                     /\ IF pc = "syncVouchers"
                           THEN \* startCommandPollLoop(); startSyncLoop()
                                /\ commandPollInterval' = TRUE
                                /\ syncInterval' = TRUE
                                /\ lcActive' = [cmd |-> lcActive.cmd + 1,
                                                sync |-> lcActive.sync + 1]
                           ELSE UNCHANGED <<syncInterval, commandPollInterval, lcActive>>
                     /\ UNCHANGED isRunning
    /\ UNCHANGED <<lcStop, lcStops>>
    /\ LcUnchanged

\* stop() is called
LcStop ==
    /\ lcStop = "idle" /\ lcStops < MaxStops
    /\ lcStops' = lcStops + 1
    /\ IF ~isRunning
          THEN UNCHANGED <<svcVars, lcStop, lcActive>>
          ELSE /\ StopHead
               /\ lcActive' = [cmd |-> Cleared(lcActive.cmd, commandPollInterval),
                               sync |-> Cleared(lcActive.sync, syncInterval)]
               /\ lcStop' = "disconnect"
               /\ UNCHANGED status
    /\ UNCHANGED <<syncResult, lcStarts, connectionId, isLoggedIn>>
    /\ LcUnchanged

\* the end of stop(); every start() call suspended meanwhile has seen a whole
\* stop() go by
LcStopReturns ==
    /\ StopTail
    /\ lcStop' = "idle"
    /\ lcStarts' = [k \in StartCalls |->
                       IF lcStarts[k].pc \in StartAwaits
                          THEN [lcStarts[k] EXCEPT !.stopped = TRUE]
                          ELSE lcStarts[k]]

\* stop(): vorioClient.disconnect() has settled (a failure is swallowed)
LcStopDisconnect ==
    /\ lcStop = "disconnect"
    /\ connectionId' = FALSE
    /\ IF LogoutRequest(isLoggedIn)
          THEN /\ lcStop' = "logout"
               /\ UNCHANGED <<isLoggedIn, status, lcStarts>>
          ELSE LcStopReturns
    /\ UNCHANGED <<isRunning, syncInterval, commandPollInterval, syncResult, lcStops,
                   lcActive>>
    /\ LcUnchanged

\* stop(): the logout request has been answered
LcStopLogout ==
    /\ lcStop = "logout"
    /\ LcStopReturns
    /\ UNCHANGED <<isRunning, syncInterval, commandPollInterval, syncResult, lcStops,
                   lcActive, connectionId>>
    /\ LcUnchanged

(***************************************************************************)
(* processCommand() on one delete_voucher command, with the data it        *)
(* handles: the payload, the list the controller returns and the           *)
(* arguments of the calls it makes.                                        *)
(***************************************************************************)
Call(op, arg) == [op |-> op, arg |-> arg]

DvCall(op, arg) == dvCalls' = Append(dvCalls, Call(op, arg))

DvUnchanged ==
    UNCHANGED <<svcVars, startVars, canListWLANs, syncResult, mvVars, ccVars,
                pgVars, shVars, lcVars, exited, sigVars,
                ticks, fired, fetched, connectionId, useApiKey, sessionVars, opVars>>

\* the handler returned: `await this.vorioClient.completeCommand(command.id, true)`
DvHandled == DvCall("completeCommand", "true") /\ dvPc' = "completeCommand"

\* the catch block of processCommand: this.logError(error), then
\* completeCommand(command.id, false, message)
DvCatch ==
    /\ dvCalls' = dvCalls \o <<Call("logError", ""), Call("completeCommand", "false")>>
    /\ dvPc' = "completeFailure"

\* processCommand(command) is called: acknowledgeCommand(command.id)
DvProcessCommand ==
    /\ dvPc = "idle"
    /\ \E payload \in Payloads : dvPayload' = payload
    /\ DvCall("acknowledgeCommand", "")
    /\ dvPc' = "acknowledgeCommand"
    /\ UNCHANGED <<dvVouchers, isLoggedIn>>
    /\ DvUnchanged

\* the acknowledgement settled; handleDeleteVoucherCommand runs up to its
\* first await
DvAcknowledged ==
    /\ dvPc = "acknowledgeCommand"
    /\ \E e \in CloudOutcomes :
          IF e # NoError
             THEN dvPc' = "raised" /\ UNCHANGED dvCalls
             ELSE CASE DeleteBranch(dvPayload) = "deleteVoucher" ->
                         /\ DvCall("deleteVoucher", dvPayload.voucherId)
                         /\ dvPc' = "deleteVoucher"
                    [] DeleteBranch(dvPayload) = "findVoucher" ->
                         /\ DvCall("getVouchers", "")
                         /\ dvPc' = "findVoucher"
                    [] OTHER -> DvHandled
    /\ UNCHANGED <<dvPayload, dvVouchers, isLoggedIn>>
    /\ DvUnchanged

\* adapter.getVouchers() settled; the search and, on a hit, the delete call
DvFindVoucher ==
    /\ dvPc = "findVoucher"
    /\ \E o \in DataOutcomes(isLoggedIn), vouchers \in VoucherLists :
          /\ isLoggedIn' = o.loggedIn
          /\ IF ~o.ok
                THEN DvCatch /\ UNCHANGED dvVouchers
                ELSE /\ dvVouchers' = vouchers
                     /\ LET voucher == find(vouchers, dvPayload.voucherCode) IN
                        IF voucher # NoVoucher
                           THEN /\ DvCall("deleteVoucher", voucher.id)
                                /\ dvPc' = "deleteVoucher"
                           ELSE DvHandled
    /\ UNCHANGED dvPayload
    /\ DvUnchanged

\* adapter.deleteVoucher(id) settled
DvDeleteVoucher ==
    /\ dvPc = "deleteVoucher"
    /\ \E o \in DataOutcomes(isLoggedIn) :
          /\ isLoggedIn' = o.loggedIn
          /\ IF o.ok THEN DvHandled ELSE DvCatch
    /\ UNCHANGED <<dvPayload, dvVouchers>>
    /\ DvUnchanged

\* completeCommand(id, true) settled; its failure is caught by the same catch
DvCompleteCommand ==
    /\ dvPc = "completeCommand"
    /\ \E e \in CloudOutcomes :
          IF e = NoError THEN dvPc' = "processed" /\ UNCHANGED dvCalls
          ELSE DvCatch
    /\ UNCHANGED <<dvPayload, dvVouchers, isLoggedIn>>
    /\ DvUnchanged

\* completeCommand(id, false, message) settled; its failure leaves
\* processCommand
DvCompleteFailure ==
    /\ dvPc = "completeFailure"
    /\ \E e \in CloudOutcomes :
          dvPc' = IF e = NoError THEN "processed" ELSE "raised"
    /\ UNCHANGED <<dvPayload, dvVouchers, dvCalls, isLoggedIn>>
    /\ DvUnchanged

Init ==
    /\ isRunning = FALSE
    /\ syncInterval = FALSE
    /\ commandPollInterval = FALSE
    /\ status = [connected |-> FALSE, voucherCount |-> 0,
                 lastError |-> Undefined, lastSync |-> FALSE]
    /\ startPc = "idle" /\ startTrace = <<>> /\ startErr = NoError
    /\ canListWLANs = getCapabilities.canListWLANs
    /\ syncResult = [syncedCount |-> 0]
    /\ dvPc = "idle" /\ dvPayload = NoPayload /\ dvVouchers = <<>> /\ dvCalls = <<>>
    /\ ccOp = "none" /\ ccPc = "idle" /\ ccSent = 0 /\ ccAnswers = <<>>
    /\ ccError = NoCloudError /\ ccResult = "none"
    /\ ccData = NoIds /\ ccFields = NoIds
    /\ pgPc = "idle" /\ pgServer = 0 /\ pgOffset = 0 /\ pgVouchers = <<>>
    /\ pgReqs = <<>> /\ pgPages = <<>> /\ pgResult = "none"
    /\ shCalls = [c \in Callers |-> IdleCall] /\ shValid = FALSE
    /\ shExpiries = 0 /\ shReauths = 0
    /\ lcStarts = [k \in StartCalls |-> IdleStart] /\ lcStop = "idle" /\ lcStops = 0
    /\ lcActive = [cmd |-> 0, sync |-> 0]
    /\ mvPc = "idle" /\ mvRaw = BareVoucher /\ mvNow = 0 /\ mvOut = <<>>
    /\ exited = FALSE
    /\ sigPc = "idle" /\ sigCalls = <<>>
    /\ ticks = EmptyBag
    /\ fired = 0
    /\ fetched = 0
    /\ connectionId = FALSE
    /\ useApiKey \in BOOLEAN /\ isLoggedIn = FALSE /\ cookies = FALSE /\ csrfToken = FALSE
    /\ IdleOp

StartNext ==
    \/ StartBegin
    \/ StartLogin
    \/ StartControllerInfo
    \/ StartWLANs
    \/ StartConnect
    \/ StartGetVouchers
    \/ StartSyncVouchers
    \/ Signal
    \/ SignalDisconnect
    \/ SignalLogout

CommandLoopNext ==
    \/ CommandPollTick
    \/ \E r \in BagToSet(ticks) : GetCommands(r)
    \/ \E r \in BagToSet(ticks) : AcknowledgeCommand(r)
    \/ \E r \in BagToSet(ticks) : CommandGetVouchers(r)
    \/ \E r \in BagToSet(ticks) : CommandSyncVouchers(r)
    \/ \E r \in BagToSet(ticks) : CommandFindVoucher(r)
    \/ \E r \in BagToSet(ticks) : CommandDeleteVoucher(r)
    \/ \E r \in BagToSet(ticks) : CommandStopDisconnect(r)
    \/ \E r \in BagToSet(ticks) : CommandStopLogout(r)
    \/ \E r \in BagToSet(ticks) : CompleteCommand(r)
    \/ \E r \in BagToSet(ticks) : CompleteCommandFailed(r)
    \/ \E r \in BagToSet(ticks) : ForNextCommand(r)

SyncLoopNext ==
    \/ SyncTick
    \/ \E r \in BagToSet(ticks) : SyncGetVouchers(r)
    \/ \E r \in BagToSet(ticks) : SyncSyncVouchers(r)
    \/ \E r \in BagToSet(ticks) : SyncHeartbeat(r)
    \/ \E r \in BagToSet(ticks) : SyncErrorHeartbeat(r)

Returns == \E r \in BagToSet(ticks) : TickReturn(r)

\* the agent with both loops
Next == StartNext \/ CommandLoopNext \/ SyncLoopNext \/ Returns

Spec == Init /\ [][Next]_vars

AdapterNext ==
    \/ AdapterCall
    \/ AdapterProbe
    \/ AdapterAuth
    \/ AdapterAuthLegacy
    \/ AdapterRequest
    \/ AdapterWLANProxy
    \/ AdapterWLANDirect
    \/ AdapterLogoutRequest

\* the adapter alone, driven method by method
SpecAdapter == Init /\ [][AdapterNext]_vars

DeleteVoucherNext ==
    \/ DvProcessCommand
    \/ DvAcknowledged
    \/ DvFindVoucher
    \/ DvDeleteVoucher
    \/ DvCompleteCommand
    \/ DvCompleteFailure

\* one delete_voucher command processed, with its data
SpecDeleteVoucher == Init /\ [][DeleteVoucherNext]_vars

CloudClientNext == CloudCall \/ CloudAnswer

\* the cloud client alone, driven operation by operation
SpecCloudClient == Init /\ [][CloudClientNext]_vars

PaginationNext == PgCall \/ PgPage

\* fetchVouchersNewApi() alone; a request is answered or fails in the end
\* (the client has a request timeout)
SpecPagination == Init /\ [][PaginationNext]_vars /\ WF_vars(PgPage)

SharedSessionNext ==
    \/ ShStart
    \/ \E c \in Callers : ShCall(c)
    \/ ShExpire
    \/ \E c \in Callers : ShAnswer(c)
    \/ \E c \in Callers : ShLogin(c)

\* the adapter under two callbacks that overlap
SpecSharedSession == Init /\ [][SharedSessionNext]_vars

LifecycleNext ==
    \/ \E k \in StartCalls : LcStart(k)
    \/ \E k \in StartCalls : LcResume(k)
    \/ LcStop
    \/ LcStopDisconnect
    \/ LcStopLogout

\* the service under any sequence of start() and stop() calls
SpecLifecycle == Init /\ [][LifecycleNext]_vars

MapVouchersNext == MvFetched \/ MvClock \/ MvMap

\* mapVouchers applied to raw records, at various instants
SpecMapVouchers == Init /\ [][MapVouchersNext]_vars

\* the agent over a period in which only the command-poll timer fires
SpecCommandLoop == Init /\ [][StartNext \/ CommandLoopNext \/ Returns]_vars

\* the agent over a period in which only the sync timer fires
SpecSyncLoop == Init /\ [][StartNext \/ SyncLoopNext \/ Returns]_vars

(***************************************************************************)
(* Properties of command processing                                        *)
(***************************************************************************)
CommandTicks == {r \in BagToSet(ticks) : r.loop = "cmd"}

SyncTicks == {r \in BagToSet(ticks) : r.loop = "sync"}

\* what a command's dispatch does to the controller, the cloud and the service
SideEffects ==
    {"getVouchers", "syncVouchers", "deleteVoucher", "stop", "disconnect",
     "logout", "stopped"}

DispatchEnds == {"dispatch_ok", "dispatch_raised"}

Completions == {"complete_true", "complete_false"}

DispatchPcs ==
    {"getVouchers", "syncVouchers", "findVoucher", "deleteVoucher", "disconnect",
     "logout"}

\* C1: a command is acknowledged before its dispatch has any side effect, its
\* completion is reported only after its dispatch has returned or raised, and
\* when the acknowledgement fails the dispatch never begins and nothing of the
\* command takes effect.
C1_AcknowledgeDispatchComplete ==
    \A r \in CommandTicks :
        LET e == r.evs IN
        /\ r.pc \in DispatchPcs \cup {"completeCommand", "completeCommandFailed"}
              => e # <<>> /\ e[1] = "ack_ok"
        /\ \A j \in 1..Len(e) :
              /\ e[j] \in SideEffects \cup DispatchEnds \cup Completions
                    => j > 1 /\ e[1] = "ack_ok"
              /\ e[j] \in Completions =>
                    /\ \E m \in 1..(j - 1) : e[m] \in DispatchEnds
                    /\ \A m \in (j + 1)..Len(e) : e[m] \notin SideEffects
              /\ e[j] = "ack_failed" => j = 1 /\ Len(e) = 1

C1_Witness ==
    \E r \in CommandTicks :
        r.evs = <<"ack_ok", "getVouchers", "syncVouchers", "dispatch_ok",
                  "complete_true">>

\* C4: when the dispatch of a command raises, processCommands goes on with the
\* commands that follow: it returns normally with every command of the batch
\* acknowledged.
C4_DispatchFailureKeepsBatch ==
    \A r \in CommandTicks :
        r.raised /\ Settled(r) => r.pc = "done" /\ r.acked = r.n

\* C5: a failure at any step of one command never prevents the commands after
\* it in the batch from being acknowledged and dispatched: a batch is left
\* only after its last command.
C5_FailureKeepsLaterCommands ==
    \A r \in CommandTicks : r.n > 0 /\ Settled(r) => r.i = r.n

NoStopInProgress ==
    /\ sigPc \notin {"disconnect", "logout"}
    /\ \A q \in BagToSet(ticks) : q.pc \notin {"disconnect", "logout"}

InFlight(rs) == {r \in rs : ~Settled(r)}

\* C7: at most one command-poll callback is executing processCommands and at
\* most one sync callback is executing syncCycle at any time.
C7_NoOverlappingTicks ==
    /\ BagCardinality([r \in InFlight(CommandTicks) |-> CopiesIn(r, ticks)]) <= 1
    /\ BagCardinality([r \in InFlight(SyncTicks) |-> CopiesIn(r, ticks)]) <= 1

(***************************************************************************)
(* Properties of start() and stop()                                        *)
(***************************************************************************)
\* C8: when a stop() that found the service running completes, both loop
\* timers are cancelled, the cloud was disconnected, the adapter logged out
\* and status.connected is false.
C8_StopLeavesNothingRunning ==
    /\ sigPc = "done" =>
          /\ ~syncInterval
          /\ ~commandPollInterval
          /\ ~status.connected
          /\ sigCalls = <<"disconnect", "logout">>
    /\ \A r \in CommandTicks :
          r.pc = "processed" /\ r.evs # <<>> /\ r.evs[Len(r.evs)] = "stopped" =>
              /\ ~syncInterval
              /\ ~commandPollInterval
              /\ ~status.connected

\* isServiceRunning()
isServiceRunning == isRunning

\* C11: the service reports itself as running only once startup has fully
\* completed, never while start() is still at its login, connect or initial
\* sync steps (no partial-running state is exposed).
C11_RunningOnlyAfterStartup ==
    isServiceRunning => startPc = "done"

StartRaisingSteps ==
    {"login", "getAvailableWLANs", "connect", "getVouchers", "syncVouchers"}

\* C9: when a step of start() raises, start() ends with that error: isRunning
\* is false, status.connected is false, status.lastError is the error's
\* message, no loop timer exists and no step was tried twice.
C9_StartFailure ==
    startPc = "failed" =>
        /\ startErr # NoError
        /\ ~isRunning
        /\ ~status.connected
        /\ status.lastError = getErrorMessage(startErr)
        /\ ~syncInterval
        /\ ~commandPollInterval
        /\ startTrace # <<>>
        /\ startTrace[Len(startTrace)] \in StartRaisingSteps
        /\ \A i, j \in 1..Len(startTrace) : i # j => startTrace[i] # startTrace[j]

C9_Witness ==
    /\ startPc = "failed"
    /\ startErr = VorioApiError
    /\ startTrace[Len(startTrace)] = "syncVouchers"
    /\ status.lastError = VorioApiError.message

StartOrder ==
    <<"login", "getControllerInfo", "getCapabilities">>
    \o (IF canListWLANs THEN <<"getAvailableWLANs">> ELSE <<>>)
    \o <<"connect", "getVouchers", "syncVouchers", "startCommandPollLoop",
         "startSyncLoop">>

\* C10: the steps of start() run in the order login, controller information,
\* capabilities, WLAN list (if supported), cloud connect, initial sync, start
\* of the loops; a loop timer exists only after the initial sync succeeded.
C10_StartOrder ==
    /\ Len(startTrace) <= Len(StartOrder)
    /\ startTrace = SubSeq(StartOrder, 1, Len(startTrace))
    /\ startPc = "done" <=> startTrace = StartOrder /\ startPc # "failed"
    /\ syncInterval \/ commandPollInterval =>
          /\ startTrace = StartOrder
          /\ status.lastSync
    /\ status.connected =>
          \E j \in 1..Len(startTrace) : startTrace[j] = "connect"

C10_Witness ==
    /\ startPc = "done"
    /\ startTrace = StartOrder
    /\ syncInterval
    /\ commandPollInterval

(***************************************************************************)
(* Properties of the adapter's session handling                            *)
(***************************************************************************)
DataOps == {"getVouchers", "deleteVoucher"}

\* C2: when a data operation is answered with 401 and, after a successful
\* re-authentication, with 401 again, the adapter raises: it makes no third
\* attempt and no second re-authentication.
C2_OneRetryOnly ==
    aOp \in DataOps /\ Len(aResps) >= 2 /\ aResps[1] = 401 /\ aResps[2] = 401 =>
        /\ Len(aResps) = 2
        /\ aReauths = 1
        /\ aPc = "done"
        /\ aResult \notin {"none", "ok"}

\* C3: a data operation answered once with 401 and then successfully returns
\* the result without an error, having cleared the authenticated flag, run
\* login() exactly once for the expired session and retried exactly once; a
\* 401 is never surfaced without a re-authentication having been tried.
C3_ReauthenticateAndRetryOnce ==
    aOp \in DataOps =>
        /\ (aPc = "done" /\ aResps = <<401, 200>>
               /\ Reply(aOp, 200, aBody.rc, aBody.msg) = NoDetail) =>
              /\ aResult = "ok"
              /\ aCleared
              /\ aReauths = 1
              /\ aLogins = (IF aEntryAuth THEN 1 ELSE 2)
              /\ isLoggedIn
        /\ aResps # <<>> /\ aResps[Len(aResps)] = 401 =>
              /\ aCleared
              /\ aReauths >= 1
              /\ aPc = "done" => aResult \in {ConnectionError.name,
                                              AuthenticationError.name}
              /\ aPc \in {"probe", "auth"} => ~isLoggedIn

C3_Witness ==
    /\ aOp = "getVouchers"
    /\ aPc = "done"
    /\ aResps = <<401, 200>>
    /\ aEntryAuth
    /\ aLogins = 1
    /\ aResult = "ok"

(***************************************************************************)
(* Properties of the two loops                                             *)
(***************************************************************************)
\* the callbacks that went past the isRunning guard and have not returned
Entered(b) ==
    BagCardinality([r \in {x \in BagToSet(b) : x.pc # "skipped"} |-> CopiesIn(r, b)])

\* C12: a timer firing while the service is stopped is skipped entirely: the
\* callback makes no call and changes nothing, and a skipped callback is never
\* run later (callbacks get past the guard only by a firing while running).
C12_StoppedTickSkipped ==
    [][/\ ~isRunning /\ fired' = fired + 1 =>
             /\ Entered(ticks') = Entered(ticks)
             /\ BagCardinality(ticks') = BagCardinality(ticks) + 1
             /\ UNCHANGED <<svcVars, fetched, connectionId, isLoggedIn>>
       /\ Entered(ticks') > Entered(ticks) => isRunning /\ fired' = fired + 1
      ]_vars

C12_Witness ==
    /\ ~isRunning
    /\ \E r \in BagToSet(ticks) : r.pc = "skipped" /\ r.evs = <<>> /\ r.hb = <<>>

\* the callbacks whose work ended with an error
Failed(b) ==
    BagCardinality([r \in {x \in BagToSet(b) : x.pc \in {"caught", "errorHeartbeat"}}
                       |-> CopiesIn(r, b)])

\* C13: no error raised inside a tick escapes the timer callback: neither the
\* step in which the callback catches the error nor the return of the failed
\* callback stops the service, cancels a timer or starts a shutdown.
C13_TickErrorsContained ==
    [][(\/ Failed(ticks') > Failed(ticks)
        \/ \E r \in BagToSet(ticks) :
              r.pc = "caught" /\ CopiesIn(r, ticks') < CopiesIn(r, ticks))
          => UNCHANGED <<isRunning, syncInterval, commandPollInterval, sigVars, exited>>
      ]_vars

C13_Witness ==
    /\ isRunning /\ syncInterval /\ commandPollInterval /\ ~exited
    /\ status.lastError # Undefined
    /\ fired = MaxTicks
    /\ BagCardinality(ticks) = 1
    /\ \E r \in BagToSet(ticks) : r.loop = "sync" /\ r.pc = "getVouchers"

\* the callback record r has just entered the catch block of its callback
EntersCatch(r) ==
    /\ CopiesIn(r, ticks') > CopiesIn(r, ticks)
    /\ \/ r.loop = "cmd" /\ r.pc = "caught"
       \/ r.loop = "sync" /\ r.pc = "errorHeartbeat"

\* C14: when a command-poll tick or a sync tick fails, the error caught by the
\* callback is recorded: status.lastError holds that error's message.
C14_LoopErrorRecorded ==
    [][\A r \in BagToSet(ticks') :
          EntersCatch(r) => status'.lastError = getErrorMessage(r.err)]_vars

ErrorHeartbeats(r) == Cardinality({j \in 1..Len(r.hb) : r.hb[j].status = "error"})

\* C15: when a sync tick fails, the callback stores the error's message in
\* status.lastError and sends one heartbeat with status 'error', that message
\* and the voucherCount known before the failure; it sends no second one, and
\* whatever the answer to that heartbeat the callback returns normally.
C15_ErrorHeartbeat ==
    [][\A r \in BagToSet(ticks') :
          r.loop = "sync" =>
             /\ EntersCatch(r) =>
                   /\ status'.lastError = getErrorMessage(r.err)
                   /\ r.hb[Len(r.hb)] =
                         [status |-> "error",
                          voucherCount |-> status.voucherCount,
                          error |-> getErrorMessage(r.err)]
             /\ ErrorHeartbeats(r) <= 1
             /\ r.pc \in {"errorHeartbeat", "caught"} <=> ErrorHeartbeats(r) = 1
             /\ r.pc = "caught" => Promise(r) = "fulfilled"]_vars

C15_Witness ==
    \E r \in BagToSet(ticks) :
        /\ r.loop = "sync"
        /\ r.pc = "caught"
        /\ r.err = VorioApiError
        /\ Len(r.hb) = 2
        /\ r.hb[1].status = "ok"
        /\ r.hb[2] = [status |-> "error", voucherCount |-> MaxVouchers,
                      error |-> VorioApiError.message]

(***************************************************************************)
(* Properties of performSync()                                             *)
(***************************************************************************)
\* a full sync has just completed: in start(), in a sync callback or for a
\* sync_now command
SyncCompletes ==
    \/ startPc = "syncVouchers" /\ startPc' = "done"
    \/ \E r \in BagToSet(ticks), q \in BagToSet(ticks') :
          /\ r.pc = "syncVouchers"
          /\ CopiesIn(r, ticks') < CopiesIn(r, ticks)
          /\ CopiesIn(q, ticks') > CopiesIn(q, ticks)
          /\ q.pc \in {"heartbeat", "completeCommand"}

\* C16: after every successful full sync status.voucherCount is the
\* syncedCount the cloud returned for that upload, status.lastError is
\* undefined and status.lastSync is set.
C16_SyncedStatus ==
    [][SyncCompletes =>
          /\ status'.voucherCount = syncResult'.syncedCount
          /\ status'.lastError = Undefined
          /\ status'.lastSync]_vars

C16_Witness ==
    /\ status.voucherCount = MaxVouchers
    /\ syncResult.syncedCount = MaxVouchers
    /\ status.lastError = Undefined
    /\ status.lastSync
    /\ \E r \in BagToSet(ticks) :
          /\ r.loop = "sync" /\ r.pc = "heartbeat"
          /\ r.hb = <<[status |-> "ok", voucherCount |-> MaxVouchers, error |-> Undefined]>>

Count(e, S) == Cardinality({j \in 1..Len(e) : e[j] \in S})

\* C17: within one fetched batch each command is acknowledged at most once and
\* dispatched at most once (the loop visits every index once), and a command
\* whose dispatch raised is reported with success=false and nothing more is
\* done for it.
C17_AtMostOnce ==
    \A r \in CommandTicks :
        /\ r.acked <= r.i /\ r.i <= r.n
        /\ Count(r.evs, {"ack_ok", "ack_failed"}) <= 1
        /\ Count(r.evs, DispatchEnds) <= 1
        /\ \A x \in SideEffects : Count(r.evs, {x}) <= 1
        /\ \A j \in 1..Len(r.evs) :
              r.evs[j] = "dispatch_raised" =>
                  /\ \A m \in (j + 1)..Len(r.evs) : r.evs[m] = "complete_false"
                  /\ IF j = Len(r.evs)
                        THEN r.pc = "completeCommandFailed"
                        ELSE j + 1 = Len(r.evs) /\ r.pc \in {"processed", "caught", "done"}

C17_Witness ==
    \E r \in CommandTicks :
        /\ r.n = 2 /\ r.i = 2 /\ r.acked = 2
        /\ r.raised
        /\ r.pc = "processed"
        /\ r.evs = <<"ack_ok", "deleteVoucher", "dispatch_raised", "complete_false">>

\* C18: a command of an unknown type is acknowledged, causes no adapter call
\* and no sync, and is completed with success=true; the failure completion
\* (completeCommand(id, false, ...)) is never issued for it.
C18_UnknownTypeIsNoOp ==
    \A r \in CommandTicks :
        r.type = "unknown" =>
            /\ Count(r.evs, SideEffects) = 0
            /\ Count(r.evs, {"dispatch_raised", "complete_false"}) = 0
            /\ r.pc # "completeCommandFailed"
            /\ r.pc = "processed" =>
                  r.evs = <<"ack_ok", "dispatch_ok", "complete_true">>

(***************************************************************************)
(* Properties of the delete_voucher handler                                *)
(***************************************************************************)
CallsOf(op) == SelectSeq(dvCalls, LAMBDA c : c.op = op)

Matches == {j \in 1..Len(dvVouchers) : dvVouchers[j].code = dvPayload.voucherCode}

\* C19: for a delete_voucher command, a payload with a voucherId leads to
\* exactly one deleteVoucher call, with that id, and to no fetch of the voucher
\* list; otherwise a payload with a voucherCode leads to one fetch of the list
\* and to a deleteVoucher call with the id of the first voucher of that code;
\* when no voucher has the code, nothing is deleted and the command is
\* completed with success = true.
C19_DeleteVoucherTarget ==
    LET acknowledged == Len(dvCalls) > 1
        deletes == CallsOf("deleteVoucher")
        fetches == CallsOf("getVouchers") IN
    /\ Len(deletes) <= 1
    /\ acknowledged /\ dvPayload.voucherId # "" =>
          /\ deletes = <<Call("deleteVoucher", dvPayload.voucherId)>>
          /\ fetches = <<>>
    /\ acknowledged /\ dvPayload.voucherId = "" /\ dvPayload.voucherCode # "" =>
          /\ dvCalls[2] = Call("getVouchers", "")
          /\ Len(fetches) = 1
          /\ Len(dvCalls) > 2 /\ dvCalls[3].op # "logError" =>
                IF Matches # {}
                   THEN LET first == CHOOSE j \in Matches : \A k \in Matches : j <= k IN
                        /\ dvCalls[3] = Call("deleteVoucher", dvVouchers[first].id)
                        /\ deletes = <<dvCalls[3]>>
                   ELSE /\ dvCalls[3] = Call("completeCommand", "true")
                        /\ deletes = <<>>

\* a list with two vouchers of the code was searched and the command processed
C19_Witness ==
    /\ dvPc = "processed"
    /\ dvPayload = [voucherId |-> "", voucherCode |-> "c1"]
    /\ Len(dvVouchers) = 2
    /\ dvVouchers[1].code = "c1" /\ dvVouchers[2].code = "c1"
    /\ dvVouchers[1].id # dvVouchers[2].id
    /\ CallsOf("deleteVoucher") = <<Call("deleteVoucher", dvVouchers[1].id)>>
    /\ CallsOf("completeCommand") = <<Call("completeCommand", "true")>>

(***************************************************************************)
(* Properties of the WLAN listing                                          *)
(***************************************************************************)
\* C20: getAvailableWLANs() never raises: whatever fails during the call, in
\* any state of the adapter, it returns a list (the empty one on a failure).
C20_WLANsNeverRaise ==
    aOp = "getAvailableWLANs" /\ aPc = "done" => aResult \in {"ok", "empty"}

\* C21: the session-expiry protocol applies to getAvailableWLANs(): a WLAN
\* request answered with 401 makes the adapter clear its authenticated flag,
\* run login() again and retry the fetch once, so that an expired session
\* followed by a successful retry yields the list of the controller.
C21_WLANsReauthenticate ==
    aOp = "getAvailableWLANs" /\ aResps # <<>> /\ aResps[Len(aResps)] = 401 =>
        /\ aCleared
        /\ aReauths >= 1
        /\ aPc = "done" => aResult # "empty"

(***************************************************************************)
(* Properties of login() and logout()                                      *)
(***************************************************************************)
\* C22: login() runs the connectivity probe first; when the probe fails,
\* login() raises a ConnectionError that carries host, port and the code of
\* the network error (ECONNREFUSED for a refused connection), sends no
\* authentication request and does not set the authenticated flag.
C22_ProbeFirst ==
    /\ \A i \in 1..Len(aReqs) :
          aReqs[i] \in {"sites", "auth/login"} => i > 1 /\ aReqs[i - 1] = "probe"
    /\ aOp = "login" /\ aPc # "idle" => aReqs[1] = "probe"
    /\ aNet \notin {"none", "responds"} =>
          /\ aPc = "done"
          /\ aResult = "ConnectionError"
          /\ aError.name = "ConnectionError"
          /\ aError.host = Host /\ aError.port = Port
          /\ aError.errorCode = (IF aNet = "" THEN "UNKNOWN" ELSE aNet)
          /\ aReqs[Len(aReqs)] = "probe"
          /\ isLoggedIn => aOp = "login" /\ aEntryAuth

C22_Witness ==
    /\ aOp = "login" /\ aPc = "done"
    /\ aNet = "ECONNREFUSED"
    /\ aError.errorCode = "ECONNREFUSED"
    /\ aReqs = <<"probe">>
    /\ ~isLoggedIn

Rejections == {401, 403}

\* the authentication method of the adapter's configuration
AuthMethod == IF useApiKey THEN "api_key" ELSE "credentials"

\* C23: when the probe succeeded and the controller rejects the authentication
\* with 401 or 403, login() raises an AuthenticationError whose authMethod is
\* 'api_key' in key mode and 'credentials' in session mode (there only after
\* both login endpoints were tried), and isAuthenticated() is false afterwards.
C23_AuthenticationRejected ==
    /\ ~useApiKey /\ Len(aAuths) = 1 /\ aAuths[1] \in Rejections =>
          aPc = "authLegacy" /\ aResult = "none"
    /\ (/\ Len(aAuths) = (IF useApiKey THEN 1 ELSE 2)
        /\ \A i \in 1..Len(aAuths) : aAuths[i] \in Rejections) =>
          /\ aPc = "done"
          /\ aResult = "AuthenticationError"
          /\ aError.authMethod = AuthMethod
          /\ ~isLoggedIn

\* C25: logout() never raises and is idempotent; after it returned, from any
\* state of the adapter, the session state is cleared: isAuthenticated() is
\* false and neither cookies nor a CSRF token are retained, also when the
\* authenticated flag had been cleared by a session expiry whose re-login
\* failed.
C25_LogoutClearsSession ==
    aOp = "logout" /\ aPc = "done" =>
        /\ aResult = "ok"
        /\ ~isLoggedIn
        /\ ~cookies
        /\ ~csrfToken

(***************************************************************************)
(* Properties of deleteVoucher()                                           *)
(***************************************************************************)
\* the answer to the last data request
LastStatus == aResps[Len(aResps)]

\* the backend reported that the request failed: an HTTP error status on the
\* key-based path, meta.rc other than 'ok' on the session-based path
BackendFailed ==
    /\ aResps # <<>>
    /\ IF useApiKey THEN LastStatus \in {403, 500}
                    ELSE Accepted(LastStatus) /\ aBody.rc # "ok"

\* C24: deleteVoucher(id) raises a ControllerError carrying the backend's
\* message whenever the backend reported that the delete failed, on the
\* key-based and on the session-based path, and returns normally only when
\* the backend reported success.
C24_DeleteFailureRaised ==
    aOp = "deleteVoucher" /\ aPc = "done" =>
        /\ BackendFailed =>
              /\ aResult = "ControllerError"
              /\ aBody.msg # "" => aError.message = aBody.msg
        /\ aResult = "ok" => aResps # <<>> /\ ~BackendFailed /\ Accepted(LastStatus)

(***************************************************************************)
(* Properties of mapVouchers()                                             *)
(***************************************************************************)
\* the value a raw record gives for a field with two variants, when at most
\* one of them is there
OneVariant(modern, legacy) == modern = Absent \/ legacy = Absent

RawValue(modern, legacy, default) ==
    IF modern # Absent THEN modern ELSE IF legacy # Absent THEN legacy ELSE default

RawQuota == RawValue(mvRaw.authorizedGuestLimit, mvRaw.quota, 1)

RawUsed == RawValue(mvRaw.authorizedGuestCount, mvRaw.used, 0)

Both(modern, legacy) == modern # Absent /\ legacy # Absent

BothStrings(modern, legacy) == modern # Undefined /\ legacy # Undefined

\* C27: for a raw record that carries the modern and the legacy variant of a
\* field, the mapped field has the value of the modern variant, whatever
\* value that is, 0 included.
C27_ModernVariantWins ==
    \A j \in 1..Len(mvOut) :
        LET v == mvRaw
            out == mvOut[j] IN
        /\ BothStrings(v.id, v._id) => out.id = v.id
        /\ Both(v.timeLimitMinutes, v.duration) => out.duration = v.timeLimitMinutes
        /\ Both(v.authorizedGuestLimit, v.quota) => out.quota = v.authorizedGuestLimit
        /\ Both(v.authorizedGuestCount, v.used) => out.used = v.authorizedGuestCount
        /\ Both(v.createdAt, v.create_time) => out.createTime = Seconds(v.createdAt)
        /\ Both(v.activatedAt, v.start_time) => out.startTime = Seconds(v.activatedAt)
        /\ Both(v.txRateLimitKbps, v.qos_rate_max_up) =>
              out.qosRateMaxUp = v.txRateLimitKbps
        /\ Both(v.rxRateLimitKbps, v.qos_rate_max_down) =>
              out.qosRateMaxDown = v.rxRateLimitKbps
        /\ BothStrings(v.name, v.note) => out.note = v.name

\* the raw record gives no quota, or the quota 0: unlimited
RawUnlimited ==
    /\ mvRaw.authorizedGuestLimit \in {Absent, 0}
    /\ mvRaw.quota \in {Absent, 0}

\* C28: a mapped voucher has quota >= 1 and, unless its quota is unlimited
\* (raw quota 0 or absent), used <= quota; a raw record of unlimited quota
\* with used > 1 does not yield a finite quota smaller than used.
C28_UsedWithinQuota ==
    \A j \in 1..Len(mvOut) :
        /\ mvOut[j].quota >= 1
        /\ ~RawUnlimited /\ RawUsed <= RawQuota => mvOut[j].used <= mvOut[j].quota
        /\ RawUnlimited /\ mvOut[j].used > 1 => ~(mvOut[j].quota < mvOut[j].used)

\* C29: mapping a raw voucher is deterministic: for every raw record, also
\* one with neither createdAt nor create_time, mapping it twice, at any two
\* instants, yields the same canonical voucher.
C29_MappingDeterministic ==
    \A j, k \in 1..Len(mvOut) : mvOut[j] = mvOut[k]

(***************************************************************************)
(* Properties of the cloud client                                          *)
(***************************************************************************)
FixedStatuses == {401, 403, 404, 429}

C31_ConnectDisconnect ==
    [][ccPc = "request" /\ ccPc' = "done" =>
          LET code == ccAnswers'[1] IN
          /\ connectionId' = isConnected(ccFields')
          /\ (ccOp = "connect" /\ code = 200) =>
                /\ ccResult' = "returned"
                /\ ccData' \in ConnectResponses
                /\ ccFields' = ccData'
                /\ isConnected(ccFields')
          /\ (ccOp = "connect" /\ code # 200) =>
                /\ ccResult' = "raised"
                /\ ccFields' = ccFields
                /\ connectionId' = connectionId
          /\ ccOp = "disconnect" =>
                /\ ccResult' = "returned"
                /\ ccFields' = NoIds
                /\ ~isConnected(ccFields')]_vars

C31_Witness ==
    /\ ccOp = "connect" /\ ccPc = "done" /\ ccResult = "raised"
    /\ ccAnswers = <<500>>
    /\ ccFields = [connectionId |-> "conn1", projectId |-> "proj2"]
    /\ connectionId

(***************************************************************************)
(* Properties of the paginated voucher fetch                               *)
(***************************************************************************)
\* every answer so far carried data, reported the controller's total and,
\* while records remained, held at least one of them
Consistent ==
    \A j \in 1..Len(pgPages) :
        /\ pgPages[j].present
        /\ pgPages[j].totalCount = pgServer
        /\ pgReqs[j] < pgServer => pgPages[j].len >= 1

PagesInOrder ==
    /\ pgPc # "idle" => pgReqs # <<>> /\ pgReqs[1] = 0
    /\ Len(pgReqs) = Len(pgPages) + (IF pgPc = "request" THEN 1 ELSE 0)
                                  + (IF pgResult = "raised" THEN 1 ELSE 0)
    /\ \A j \in 1..(Len(pgReqs) - 1) :
          \* a further request followed page j
          /\ pgReqs[j + 1] = pgReqs[j] + pgPages[j].len
          /\ pgReqs[j + 1] > pgReqs[j]
          /\ pgPages[j].len > 0
          /\ pgReqs[j + 1] < pgPages[j].totalCount
    /\ (pgPc = "done" /\ pgResult = "returned") =>
          LET last == pgPages[Len(pgPages)] IN
          \/ ~last.present
          \/ last.len = 0
          \/ pgOffset >= last.totalCount
    /\ (pgPc = "done" /\ pgResult = "returned" /\ Consistent) =>
          /\ pgVouchers = Records(1, pgServer)
          /\ Len(pgReqs) <= (IF pgServer = 0 THEN 1 ELSE pgServer)

\* C32: the offset requested starts at 0 and grows with every page by the
\* number of records the page held; a further page is requested only after a
\* page that was not empty and left the offset below the reported totalCount;
\* against a controller that reports its total and answers with at least one
\* record while records remain, the result is the controller's vouchers, each
\* once and in order; and every fetch ends.
C32_PaginationComplete ==
    /\ []PagesInOrder
    /\ (pgPc = "request") ~> (pgPc = "done")

C32_Witness ==
    /\ pgPc = "done" /\ pgResult = "returned"
    /\ pgServer = MaxTotal
    /\ Consistent
    /\ Len(pgPages) = 3
    /\ pgPages[1].len = 1
    /\ pgVouchers = Records(1, MaxTotal)

(***************************************************************************)
(* Properties of start() and stop() running side by side                   *)
(***************************************************************************)
\* the start() call k takes its next step
StartResumes(k) == lcStarts'[k].pc # lcStarts[k].pc

\* C33: when stop() has run to completion while a start() call was suspended
\* at an await, the resumed start() creates no loop timer, does not set
\* status.connected and does not perform the initial sync; if no other start()
\* was called, the service ends stopped, with status.connected false and no
\* timer active.
C33_StartAbandonedAfterStop ==
    [][\A k \in StartCalls :
          (lcStarts[k].stopped /\ StartResumes(k)) =>
              /\ UNCHANGED <<syncInterval, commandPollInterval, lcActive>>
              /\ status'.connected => status.connected
              /\ lcStarts'[k].pc \notin {"syncVouchers", "done"}
              /\ (\A j \in StartCalls \ {k} : lcStarts[j].pc = "idle") =>
                    /\ ~isRunning'
                    /\ ~status'.connected
                    /\ lcActive' = [cmd |-> 0, sync |-> 0]
      ]_vars

\* C38: whatever the order of the start() and stop() calls, at most one
\* command-poll timer and at most one sync timer are active, and an active
\* timer is the one the stored handle refers to, so that stop() cancels it.
C38_TimersOwned ==
    /\ lcActive.cmd <= 1
    /\ lcActive.sync <= 1
    /\ lcActive.cmd = (IF commandPollInterval THEN 1 ELSE 0)
    /\ lcActive.sync = (IF syncInterval THEN 1 ELSE 0)

\* a stop() called by a disconnect command has returned (the process lives on)
Stopped ==
    /\ startPc = "done" /\ ~isRunning
    /\ sigPc = "idle"
    /\ NoStopInProgress

\* some callback has just sent the request it awaits at one of `pcs`
Entering(pcs) ==
    \E q \in BagToSet(ticks') :
        q.pc \in pcs /\ CopiesIn(q, ticks') > CopiesIn(q, ticks)

\* C34: once stop() has returned, the adapter stays logged out and the cloud
\* disconnected: no callback that was under way when stop() ran logs the
\* adapter in again, uploads vouchers, sends a heartbeat or deletes a voucher.
C34_StoppedStaysStopped ==
    [][Stopped =>
          /\ isLoggedIn' => isLoggedIn
          /\ connectionId' => connectionId
          /\ ~Entering({"syncVouchers", "heartbeat", "errorHeartbeat", "deleteVoucher"})
      ]_vars

(***************************************************************************)
(* Properties of a batch of commands                                       *)
(***************************************************************************)
\* processCommand has returned from the command of callback r, and the for
\* loop moves on
LeavesCommand(r) ==
    r.pc = "processed" /\ CopiesIn(r, ticks') < CopiesIn(r, ticks)

\* C35: after a disconnect command has been dispatched, no later command of
\* the same batch is acknowledged or executed: the batch ends there.
C35_BatchStopsAtDisconnect ==
    [][\A r \in CommandTicks :
          (r.type = "disconnect" /\ LeavesCommand(r)) =>
              ~Entering({"acknowledgeCommand"})]_vars

\* C36: for one command at most one completeCommand call is made, and the
\* completion with success=false is made only when the dispatch of the command
\* raised, never for a dispatch that finished cleanly.
C36_OneCompletion ==
    \A r \in CommandTicks :
        /\ Count(r.evs, Completions) <= 1
        /\ (r.pc = "completeCommandFailed" \/ Count(r.evs, {"complete_false"}) > 0)
              => Count(r.evs, {"dispatch_raised"}) = 1

(***************************************************************************)
(* Properties of the session shared by overlapping callbacks               *)
(***************************************************************************)
\* the callers inside the login() that followed a 401
LoggingIn == {c \in Callers : shCalls[c].pc = "login" /\ shCalls[c].expired > 0}

\* C37: when the operations of two overlapping callbacks are answered with
\* 401 on the same expired session, at most one login() is under way at any
\* time, the expiry leads to one re-authentication in all, and no operation
\* sends its retry while the login() of the other is replacing the session.
C37_OneReauthentication ==
    /\ Cardinality(LoggingIn) <= 1
    /\ shReauths <= 1
    /\ \A c \in Callers :
          (shCalls[c].pc = "request" /\ shCalls[c].expired > 0) => LoggingIn = {}

(***************************************************************************)
(* Properties of the status kept by the service                            *)
(***************************************************************************)
\* the performSync() of a sync_now command (callback r) has just raised
SyncNowFails(r) ==
    /\ r.type = "sync_now"
    /\ r.pc \in {"getVouchers", "syncVouchers"}
    /\ CopiesIn(r, ticks') < CopiesIn(r, ticks)
    /\ Entering({"completeCommandFailed"})

\* the initial sync of start() has just raised
InitialSyncFails ==
    startPc \in {"performSync", "syncVouchers"} /\ startPc' = "failed"

\* C39: a full sync that fails, in adapter.getVouchers() or in the upload,
\* leaves status.voucherCount, status.lastSync and status.connected as they
\* were, and performSync writes no lastError: after a failed sync_now the
\* status is what it was, and after a failed initial sync only what the catch
\* block of start() writes has changed.
C39_FailedSyncKeepsStatus ==
    [][/\ \A r \in CommandTicks : SyncNowFails(r) => status' = status
       /\ InitialSyncFails =>
             /\ status'.voucherCount = status.voucherCount
             /\ status'.lastSync = status.lastSync
      ]_vars

C39_Witness ==
    \E r \in CommandTicks :
        /\ r.type = "sync_now"
        /\ r.pc = "completeCommandFailed"
        /\ r.evs = <<"ack_ok", "getVouchers", "syncVouchers", "dispatch_raised">>
        /\ status.connected /\ status.lastSync
        /\ status.voucherCount = MaxVouchers
        /\ status.lastError = Undefined

\* C40: status.lastError follows the last full sync: while it is undefined
\* after a successful performSync, the answer to the 'ok' heartbeat sent after
\* that sync, whatever it is, leaves it undefined.
C40_LastErrorFollowsSync ==
    [][\A r \in SyncTicks :
          (r.pc = "heartbeat" /\ CopiesIn(r, ticks') < CopiesIn(r, ticks)
              /\ status.lastError = Undefined)
            => status'.lastError = Undefined]_vars

====
